---------------------------- MODULE Spec2Model ----------------------------
(***************************************************************************)
(* A model of the oscen / swell synthesizer snapshots:                     *)
(*   examples/graph.rs            the Graph of SignalG nodes and its app   *)
(*   src/bin/sv1.rs               the sv1 synth and its audio callback     *)
(*   src/main.rs                  the main app's MIDI handler and render   *)
(*   examples/wavetypes.rs        the four-voice example                   *)
(*   oscen-lib/src/instruments.rs the WaveGuide's private rack             *)
(*   src/lib.rs                   the Wave objects (square, ADSR, lerp)    *)
(*                                the basic oscillators, FourierWave       *)
(*   src/reverb.rs                the Freeverb and its private rack        *)
(*                                                                         *)
(* Each binary or library object is one record variable holding its state; *)
(* a specification starts one of them and leaves the others off.           *)
(*                                                                         *)
(* Numbers.  Every f32/f64 is held as an integer count of ten-thousandths  *)
(* (x is stored as 10000 x), which is exact for the values that occur:     *)
(* sample rates 2 and 4, frequencies in whole Hz, levels and times with at *)
(* most four decimals, and phases that are multiples of a quarter cycle,   *)
(* where sin is 0, 1, 0, -1.                                               *)
(***************************************************************************)
EXTENDS Integers, Sequences, FiniteSets, TLC

VARIABLES graph, sv1, mainp, wavetypes, waveguide, waves, freeverb, twin,
          fourier, basic

vars == <<graph, sv1, mainp, wavetypes, waveguide, waves, freeverb, twin,
          fourier, basic>>

\* A binary that is not running.
Off == [pc |-> "off"]

---------------------------------------------------------------------------
(* Bounds of the model *)

\* frames of one output buffer, at most; as many rendered samples wait in the
\* scope channel, at most
MaxFrames == 2
\* channels of one frame
NumChannels == 2
\* control events (MIDI messages, slider moves of main.rs) of one run
MaxMsgs == 2
\* output buffers the audio driver asks for in one run
MaxBuffers == 2
\* samples a WaveGuide is asked for in one run
MaxSamples == 3
\* tags the outer IdGen has issued before a WaveGuide is built
MaxOuterNodes == 2

---------------------------------------------------------------------------
(* Fixed-point reals *)

Scale == 10000

Q(n) == n * Scale

Half == Scale \div 2

Quarter == Scale \div 4

MulQ(a, b) == (a * b) \div Scale

\* a / b; a whole divisor is divided by directly, which keeps a * Scale
\* within TLC's integers
DivQ(a, b) == IF b % Scale = 0 THEN a \div (b \div Scale) ELSE (a * Scale) \div b

\* x % m for f64 operands (Rust's %: the remainder has the dividend's sign)
FMod(x, m) == IF x >= 0 THEN x % m ELSE 0 - ((0 - x) % m)

\* floor(x, 0)
FloorQ(x) == x - (x % Scale)

\* (TAU * phase).sin() at a phase that is a whole number of quarter cycles
SinTau(phase) ==
  CASE phase % Scale = 0           -> 0
    [] phase % Scale = Quarter     -> Q(1)
    [] phase % Scale = 2 * Quarter -> 0
    [] phase % Scale = 3 * Quarter -> 0 - Q(1)

\* the sample rates of the output device
SampleRates == {Q(2), Q(4)}

Last(s) == s[Len(s)]

\* pitch_calc's hz_from_step on the notes A1, A2, A3, A4
HzFromStep(step) ==
  CASE step = 33 -> Q(55)
    [] step = 45 -> Q(110)
    [] step = 57 -> Q(220)
    [] step = 69 -> Q(440)

---------------------------------------------------------------------------
(* examples/graph.rs : Input, Node, Graph and the SignalG nodes *)

Variable(n) == [var |-> TRUE, v |-> n]
Constant(c) == [var |-> FALSE, v |-> c]

\* Graph::output: the cached output of the node at (0-based) position n
Output(g, n) == g[n + 1].output

\* the match on an Input that every signal() starts with
Resolve(in, g) == IF in.var THEN Output(g, in.v) ELSE in.v

\* the positions an Input makes signal() read
ReadsOf(in, g) == IF in.var THEN {<<in.v, Output(g, in.v)>>} ELSE {}

NoInput == Constant(0)

BlankNode ==
  [kind |-> "none", hz |-> NoInput, amplitude |-> NoInput, phase |-> NoInput,
   duty_cycle |-> 0, wave1 |-> 0, wave2 |-> 0, alpha |-> NoInput, output |-> 0]

\* Node::new over SineOscG::new
NewSineOscG(hz) ==
  [BlankNode EXCEPT !.kind = "SineOscG", !.hz = hz,
                    !.amplitude = Constant(Q(1)), !.phase = Constant(0)]

\* Node::new over Osc01::new
NewOsc01(hz) ==
  [BlankNode EXCEPT !.kind = "Osc01", !.hz = hz, !.phase = Constant(0)]

\* Node::new over SquareOscG::new
NewSquareOscG(hz) ==
  [BlankNode EXCEPT !.kind = "SquareOscG", !.hz = hz,
                    !.amplitude = Constant(Q(1)), !.phase = Constant(0),
                    !.duty_cycle = Half]

\* Node::new over LerpG::new
NewLerpG(wave1, wave2) ==
  [BlankNode EXCEPT !.kind = "LerpG", !.wave1 = wave1, !.wave2 = wave2,
                    !.alpha = Constant(Half)]

\* the phase step shared by the three oscillators
AdvancePhase(phase, hz, sample_rate) ==
  IF phase.var THEN Variable(phase.v)
  ELSE Constant(FMod(phase.v + DivQ(hz, sample_rate), sample_rate))

SineOscGSignal(node, g, sample_rate) ==
  LET hz        == Resolve(node.hz, g)
      amplitude == Resolve(node.amplitude, g)
      phase     == Resolve(node.phase, g)
  IN [node  |-> [node EXCEPT !.phase = AdvancePhase(node.phase, hz, sample_rate)],
      out   |-> MulQ(amplitude, SinTau(phase)),
      reads |-> ReadsOf(node.hz, g) \cup ReadsOf(node.amplitude, g)
                  \cup ReadsOf(node.phase, g)]

Osc01Signal(node, g, sample_rate) ==
  LET hz    == Resolve(node.hz, g)
      phase == Resolve(node.phase, g)
  IN [node  |-> [node EXCEPT !.phase = AdvancePhase(node.phase, hz, sample_rate)],
      out   |-> MulQ(Half, SinTau(phase) + Q(1)),
      reads |-> ReadsOf(node.hz, g) \cup ReadsOf(node.phase, g)]

SquareOscGSignal(node, g, sample_rate) ==
  LET hz        == Resolve(node.hz, g)
      amplitude == Resolve(node.amplitude, g)
      phase     == Resolve(node.phase, g)
      t         == phase - FloorQ(phase)
  IN [node  |-> [node EXCEPT !.phase = AdvancePhase(node.phase, hz, sample_rate)],
      out   |-> IF t * 1000 < Q(1) THEN 0
                ELSE IF t <= node.duty_cycle THEN amplitude
                ELSE 0 - amplitude,
      reads |-> ReadsOf(node.hz, g) \cup ReadsOf(node.amplitude, g)
                  \cup ReadsOf(node.phase, g)]

LerpGSignal(node, g, sample_rate) ==
  LET alpha == Resolve(node.alpha, g)
  IN [node  |-> node,
      out   |-> MulQ(alpha, Output(g, node.wave1))
                  + MulQ(Q(1) - alpha, Output(g, node.wave2)),
      reads |-> ReadsOf(node.alpha, g)
                  \cup {<<node.wave1, Output(g, node.wave1)>>,
                        <<node.wave2, Output(g, node.wave2)>>}]

\* the dynamic dispatch of SignalG::signal
Signal(node, g, sample_rate) ==
  CASE node.kind = "SineOscG"   -> SineOscGSignal(node, g, sample_rate)
    [] node.kind = "Osc01"      -> Osc01Signal(node, g, sample_rate)
    [] node.kind = "SquareOscG" -> SquareOscGSignal(node, g, sample_rate)
    [] node.kind = "LerpG"      -> LerpGSignal(node, g, sample_rate)

\* Graph::play, first loop: signal() of node i and of those after it, each
\* seeing the graph as the loop found it (the outputs are stored afterwards).
RECURSIVE PlayOuts(_, _, _, _)
PlayOuts(g, i, sample_rate, acc) ==
  IF i > Len(g) THEN acc
  ELSE LET r == Signal(acc.nodes[i], acc.nodes, sample_rate)
       IN PlayOuts(g, i + 1, sample_rate,
                   [nodes |-> [acc.nodes EXCEPT ![i] = r.node],
                    outs  |-> Append(acc.outs, r.out),
                    calls |-> Append(acc.calls, i - 1),
                    reads |-> Append(acc.reads, r.reads)])

\* Graph::play with the second loop stopping one node short
PlaySkipsLast(g, sample_rate) ==
  LET first  == PlayOuts(g, 1, sample_rate,
                         [nodes |-> g, outs |-> <<>>, calls |-> <<>>, reads |-> <<>>])
      stored == [i \in 1..Len(g) |->
                   IF i < Len(g) THEN [first.nodes[i] EXCEPT !.output = first.outs[i]]
                   ELSE first.nodes[i]]
  IN [nodes |-> stored,
      ret   |-> stored[Len(stored)].output,
      outs  |-> first.outs,
      calls |-> first.calls,
      reads |-> first.reads]

\* Graph::play: both loops and the returned sample
Play(g, sample_rate) ==
  LET first  == PlayOuts(g, 1, sample_rate,
                         [nodes |-> g, outs |-> <<>>, calls |-> <<>>, reads |-> <<>>])
      stored == [i \in 1..Len(g) |-> [first.nodes[i] EXCEPT !.output = first.outs[i]]]
  IN [nodes |-> stored,
      ret   |-> stored[Len(stored)].output,
      outs  |-> first.outs,
      calls |-> first.calls,
      reads |-> first.reads]


---------------------------------------------------------------------------
(* examples/graph.rs : the application (model, update, audio) *)

\* the closures update() hands to stream.send
NoteOnCmd(step) == [op |-> "note_on", arg |-> step]
AlphaCmd(value) == [op |-> "alpha", arg |-> value]

\* as_any_mut().downcast_mut::<T>() gives Some exactly for a node of type T
Downcast(node, kind) == node.kind = kind

\* the body of the closure sent for a note-on message
ApplyNoteOn(nodes, step) ==
  LET hz == HzFromStep(step)
      n1 == IF Downcast(nodes[1], "SineOscG")
            THEN [nodes EXCEPT ![1].hz = Constant(hz)] ELSE nodes
  IN IF Downcast(n1[2], "SquareOscG")
     THEN [n1 EXCEPT ![2].hz = Constant(hz)] ELSE n1

\* the Alpha closure writing the field without looking at the node's type
ApplyAlphaUnchecked(nodes, value) ==
  [nodes EXCEPT ![3].alpha = Constant(value)]

\* the body of the closure sent by the Alpha slider: synth.voice.0[2]
ApplyAlpha(nodes, value) ==
  IF Downcast(nodes[3], "LerpG")
  THEN [nodes EXCEPT ![3].alpha = Constant(value)] ELSE nodes

\* the (position, type) pairs a closure downcasts
CmdTargets(cmd) ==
  IF cmd.op = "note_on" THEN {<<1, "SineOscG">>, <<2, "SquareOscG">>}
  ELSE {<<3, "LerpG">>}

ApplyGraphCmd(nodes, cmd) ==
  IF cmd.op = "note_on" THEN ApplyNoteOn(nodes, cmd.arg)
  ELSE ApplyAlpha(nodes, cmd.arg)

\* the commands update() sends for the MIDI messages it collected
RECURSIVE GraphMidiCmds(_)
GraphMidiCmds(msgs) ==
  IF msgs = <<>> THEN <<>>
  ELSE LET message == Head(msgs)
           rest    == GraphMidiCmds(Tail(msgs))
       IN IF Len(message) = 3
          THEN IF message[1] = 144 THEN <<NoteOnCmd(message[2])>> \o rest ELSE rest
          ELSE rest

\* the MIDI messages the listener thread may deliver
GraphMessages ==
  {<<144, 33>>, <<144, 33, 100>>, <<128, 33, 0>>}

\* the values the Alpha slider may report (0 and 1)
SliderValues == {0, Q(1)}

NoSlider == 0 - 1

\* one frame whose sample is sent to the scope twice
GraphFrameSendsTwice(nodes, sample_rate) ==
  LET p   == Play(nodes, sample_rate)
      amp == 0 + p.ret
  IN [play     |-> p,
      plays    |-> 1,
      amp      |-> amp,
      channels |-> [c \in 1..NumChannels |-> amp],
      sent     |-> <<amp, amp>>]

\* fn audio, one frame: play once, write every channel, send to the scope
GraphFrame(nodes, sample_rate) ==
  LET p   == Play(nodes, sample_rate)
      amp == 0 + p.ret
  IN [play     |-> p,
      plays    |-> 1,
      amp      |-> amp,
      channels |-> [c \in 1..NumChannels |-> amp],
      sent     |-> <<amp>>]

EmptyLog ==
  [calls |-> <<>>, outs |-> <<>>, reads |-> <<>>, ret |-> 0, pre |-> <<>>,
   phases |-> <<>>]

NoCmd == [op |-> "none", arg |-> 0]

\* fn model: the graph of the example and the empty channels
GraphInit ==
  graph \in
    {[pc          |-> "idle",
      nodes       |-> <<NewSineOscG(Constant(Q(220))),
                        NewSquareOscG(Constant(Q(220))),
                        NewOsc01(Constant(Q(1))),
                        [NewLerpG(0, 1) EXCEPT !.alpha = Variable(2)]>>,
      sample_rate |-> sr,
      frames_per_buffer |-> fpb,
      frames_left |-> 0,
      pending     |-> <<>>,
      stream_q    |-> <<>>,
      midi_q      |-> <<>>,
      viz_q       |-> <<>>,
      alpha       |-> Half,
      amps        |-> <<>>,
      delivered   |-> 0,
      buffers     |-> 0,
      buffer      |-> <<>>,
      rendered    |-> <<>>,
      received    |-> <<>>,
      log         |-> EmptyLog,
      cmd_log     |-> [cmd |-> NoCmd, missed |-> FALSE, changed |-> FALSE]] :
       sr \in SampleRates, fpb \in 1..MaxFrames}

\* listen_midi's callback: midi_sender.send(message.to_vec())
GraphMidiIn ==
  /\ graph.pc # "off"
  /\ graph.delivered < MaxMsgs
  /\ \E message \in GraphMessages :
       graph' = [graph EXCEPT !.midi_q = Append(@, message),
                              !.delivered = @ + 1]
  /\ UNCHANGED <<sv1, mainp, wavetypes, waveguide, waves, freeverb, twin,
               fourier, basic>>

\* fn update, with the slider reporting `value` (or nothing); max_amp, which
\* only scales the display, is left out
GraphUpdate ==
  /\ graph.pc # "off"
  /\ \E value \in SliderValues \cup {NoSlider} :
       /\ value # NoSlider => graph.delivered < MaxMsgs
       /\ LET cmds == GraphMidiCmds(graph.midi_q)
              amps == graph.viz_q
          IN graph' =
               [graph EXCEPT
                  !.midi_q   = <<>>,
                  !.viz_q    = <<>>,
                  !.amps     = amps,
                  !.received = @ \o amps,
                  !.alpha    = IF value # NoSlider THEN value ELSE @,
                  !.delivered = IF value # NoSlider THEN @ + 1 ELSE @,
                  !.stream_q = @ \o cmds \o
                                 (IF value # NoSlider THEN <<AlphaCmd(value)>>
                                  ELSE <<>>)]
  /\ UNCHANGED <<sv1, mainp, wavetypes, waveguide, waves, freeverb, twin,
               fourier, basic>>

\* the audio callback starts: the stream takes the closures sent so far
GraphAudioBegin ==
  /\ graph.pc = "idle"
  /\ graph.buffers < MaxBuffers
  /\ Len(graph.viz_q) + graph.frames_per_buffer <= MaxFrames
  /\ graph' = [graph EXCEPT !.pc = "drain",
                            !.pending = graph.stream_q,
                            !.stream_q = <<>>,
                            !.frames_left = graph.frames_per_buffer,
                            !.buffers = @ + 1,
                            !.buffer = <<>>]
  /\ UNCHANGED <<sv1, mainp, wavetypes, waveguide, waves, freeverb, twin,
               fourier, basic>>

\* the stream runs one closure on the synth
GraphApply ==
  /\ graph.pc = "drain"
  /\ graph.pending # <<>>
  /\ LET cmd  == Head(graph.pending)
         post == ApplyGraphCmd(graph.nodes, cmd)
     IN graph' = [graph EXCEPT !.pending = Tail(@),
                               !.nodes = post,
                               !.cmd_log =
                                 [cmd     |-> cmd,
                                  missed  |-> \A t \in CmdTargets(cmd) :
                                                graph.nodes[t[1]].kind # t[2],
                                  changed |-> post # graph.nodes]]
  /\ UNCHANGED <<sv1, mainp, wavetypes, waveguide, waves, freeverb, twin,
               fourier, basic>>

\* fn audio: the body of the loop over buffer.frames_mut()
GraphRender ==
  /\ graph.pc \in {"drain", "render"}
  /\ graph.pending = <<>>
  /\ graph.frames_left > 0
  /\ LET f == GraphFrame(graph.nodes, graph.sample_rate)
     IN graph' =
          [graph EXCEPT
             !.pc = IF graph.frames_left = 1 THEN "idle" ELSE "render",
             !.frames_left = @ - 1,
             !.nodes = f.play.nodes,
             !.viz_q = @ \o f.sent,
             !.rendered = Append(@, f.amp),
             !.buffer = Append(@, [plays |-> f.plays, amp |-> f.amp,
                                   channels |-> f.channels, sent |-> f.sent]),
             !.log = [calls |-> f.play.calls, outs |-> f.play.outs,
                      reads |-> f.play.reads, ret |-> f.play.ret,
                      pre |-> [i \in 1..Len(graph.nodes) |-> graph.nodes[i].output],
                      phases |-> [i \in 1..Len(graph.nodes) |->
                                    graph.nodes[i].phase]]]
  /\ UNCHANGED <<sv1, mainp, wavetypes, waveguide, waves, freeverb, twin,
               fourier, basic>>

GraphNext ==
  \/ GraphMidiIn
  \/ GraphUpdate
  \/ GraphAudioBegin
  \/ GraphApply
  \/ GraphRender

InitGraph ==
  /\ GraphInit
  /\ sv1 = Off
  /\ mainp = Off
  /\ wavetypes = Off
  /\ waveguide = Off
  /\ waves = Off
  /\ freeverb = Off
  /\ twin = Off
  /\ fourier = Off
  /\ basic = Off

SpecGraph == InitGraph /\ [][GraphNext]_vars

---------------------------------------------------------------------------
(* The swell library as src/bin/sv1.rs and src/main.rs use it *)

\* Rack::signal / Graph::signal: one evaluation of the voice.  The sample is
\* named by the number of the evaluation that produced it.
RackSignal(evals) == [evals |-> evals + 1, out |-> evals + 1]

\* MidiPitch::set_step
SetStep(st, step) == [st EXCEPT !.step = step]

\* envelopes::on and envelopes::off on the Adsr of the voice
EnvOn(st) == [st EXCEPT !.gate = TRUE]
EnvOff(st) == [st EXCEPT !.gate = FALSE]

\* MidiControl::set_value
SetValue(control, value) == [control EXCEPT !.value = value]

\* MidiControl::new(controller, value), with the default range
NewMidiControl(controller, value) ==
  [controller |-> controller, value |-> value, range |-> <<0, Q(1)>>]

---------------------------------------------------------------------------
(* src/bin/sv1.rs *)

RackNode(name, inputs) == [name |-> name, inputs |-> inputs]

\* build_synth: the vector handed to Rack::new, each node with the nodes its
\* bindings (hz, base_hz, wave, waves, level, levels, cutoff, q, release) name
Sv1Rack ==
  <<RackNode("midi_pitch", {}),
    RackNode("midi_control_mix1", {}),
    RackNode("midi_control_mix2", {}),
    RackNode("midi_control_mix3", {}),
    RackNode("midi_control_mix4", {}),
    RackNode("midi_control_mix5", {}),
    RackNode("midi_control_release", {}),
    RackNode("midi_control_cutoff", {}),
    RackNode("midi_control_resonance", {}),
    RackNode("midi_control_volume", {}),
    RackNode("adsr", {"midi_control_release"}),
    RackNode("sine1", {"modulator_osc1"}),
    RackNode("saw1", {"midi_pitch"}),
    RackNode("square1", {"midi_pitch"}),
    RackNode("triangle1", {"midi_pitch"}),
    RackNode("sub1", {"midi_pitch"}),
    RackNode("sub2", {"midi_pitch"}),
    RackNode("sine2", {"modulator_osc2"}),
    RackNode("saw2", {"midi_pitch"}),
    RackNode("square2", {"midi_pitch"}),
    RackNode("triangle2", {"midi_pitch"}),
    RackNode("modulator_osc1", {"sine2", "midi_pitch"}),
    RackNode("modulator_osc2", {"tri_lfo", "midi_pitch"}),
    RackNode("noise", {}),
    RackNode("tri_lfo", {}),
    RackNode("square_lfo", {}),
    RackNode("mixer", {"sine1", "square1", "saw1", "triangle1", "noise",
                       "midi_control_mix1", "midi_control_mix2",
                       "midi_control_mix3", "midi_control_mix4",
                       "midi_control_mix5", "adsr"}),
    RackNode("low_pass_filter", {"mixer", "midi_control_cutoff",
                                 "midi_control_resonance"}),
    RackNode("vca", {"low_pass_filter", "midi_control_volume"})>>

\* build_synth: Midi.midi_controls, in the order of the vector
Sv1Controls ==
  <<NewMidiControl(32, 127),
    NewMidiControl(33, 0),
    NewMidiControl(34, 0),
    NewMidiControl(35, 0),
    NewMidiControl(36, 0),
    [NewMidiControl(37, 1) EXCEPT !.range = <<0, Q(10)>>],
    [NewMidiControl(40, 127) EXCEPT !.range = <<0, Q(10000)>>],
    [NewMidiControl(41, 0) EXCEPT !.range = <<7070, Q(10)>>],
    NewMidiControl(47, 64)>>

\* the position of the node called name in a rack
PositionOf(rack, name) == CHOOSE i \in 1..Len(rack) : rack[i].name = name

\* the MIDI messages the two listener threads may deliver
Sv1Messages ==
  {<<>>, <<144, 60, 100>>, <<128, 60, 0>>, <<176, 32, 10>>}

\* a single try_recv in its place
TryIterOnce(channel) ==
  IF channel = <<>> THEN [taken |-> <<>>, left |-> <<>>]
  ELSE [taken |-> <<Head(channel)>>, left |-> Tail(channel)]

\* receiver.try_iter() run to its end: everything the channel holds
TryIter(channel) == [taken |-> channel, left |-> <<>>]

\* the order in which the messages collected from the two receivers are kept
\* with the second receiver's put first
ExtendReversed(first, second) == second \o first

\* midi_messages.extend(synth.midi_receiver2.try_iter())
Extend(first, second) == first \o second

\* the loop setting every control, whatever its controller
SetControlsAll(controls, controller, value) ==
  [i \in 1..Len(controls) |-> SetValue(controls[i], value)]

\* audio: the loop over midi_controls for a control-change message
RECURSIVE SetControls(_, _, _)
SetControls(controls, controller, value) ==
  IF controls = <<>> THEN <<>>
  ELSE <<IF Head(controls).controller = controller
         THEN SetValue(Head(controls), value) ELSE Head(controls)>>
         \o SetControls(Tail(controls), controller, value)

\* audio: the body of `for message in midi_messages`
Sv1ApplyMessage(st, message) ==
  IF Len(message) = 3
  THEN IF message[1] = 144 THEN EnvOn(SetStep(st, message[2]))
       ELSE IF message[1] = 128 THEN EnvOff(st)
       ELSE IF message[1] = 176
            THEN [st EXCEPT !.controls = SetControls(@, message[2], message[3])]
            ELSE st
  ELSE st

\* audio: `for message in midi_messages`; each message applied is noted with
\* the number of frames the callback had rendered by then
RECURSIVE Sv1ApplyAll(_, _)
Sv1ApplyAll(st, entries) ==
  IF entries = <<>> THEN st
  ELSE LET e  == Head(entries)
           s1 == Sv1ApplyMessage(st, e.bytes)
       IN Sv1ApplyAll(
            [s1 EXCEPT !.applied =
               Append(@, [id |-> e.id, chan |-> e.chan, bytes |-> e.bytes,
                          late |-> e.late,
                          app_buf |-> st.buffers,
                          frames_done |-> Len(st.buffer)])],
            Tail(entries))

\* audio, one frame: evaluate the voice once, write every channel, send to
\* the scope
Sv1Frame(evals) ==
  LET r   == RackSignal(evals)
      amp == 0 + r.out
  IN [evals    |-> r.evals,
      plays    |-> r.evals - evals,
      amp      |-> amp,
      channels |-> [c \in 1..NumChannels |-> amp],
      sent     |-> <<amp>>]

IdsOf(entries) == {entries[i].id : i \in 1..Len(entries)}

\* fn model / build_synth; the stream asks for buffers of frames_per_buffer
\* frames
Sv1Init ==
  \E fpb \in 1..MaxFrames :
    sv1 = [pc            |-> "idle",
           frames_per_buffer |-> fpb,
           step          |-> 0,
           gate          |-> FALSE,
           controls      |-> Sv1Controls,
           ch1           |-> <<>>,
           ch2           |-> <<>>,
           midi_messages |-> <<>>,
           scope_q       |-> <<>>,
           scope_data    |-> <<>>,
           frames_left   |-> 0,
           buffers       |-> 0,
           delivered     |-> 0,
           evals         |-> 0,
           buffer        |-> <<>>,
           rendered      |-> <<>>,
           received      |-> <<>>,
           applied       |-> <<>>,
           start_pending |-> {}]

Sv1Entry(chan, message) ==
  [id |-> sv1.delivered + 1, chan |-> chan, bytes |-> message,
   late |-> IF sv1.pc = "render" THEN sv1.buffers ELSE 0]

\* the first listen_midi thread: midi_sender1.send(message.to_vec())
Sv1MidiIn1 ==
  /\ sv1.pc # "off"
  /\ sv1.delivered < MaxMsgs
  /\ \E message \in Sv1Messages :
       sv1' = [sv1 EXCEPT !.ch1 = Append(@, Sv1Entry(1, message)),
                          !.delivered = @ + 1]
  /\ UNCHANGED <<graph, mainp, wavetypes, waveguide, waves, freeverb, twin,
               fourier, basic>>

\* the second listen_midi thread: midi_sender2.send(message.to_vec())
Sv1MidiIn2 ==
  /\ sv1.pc # "off"
  /\ sv1.delivered < MaxMsgs
  /\ \E message \in Sv1Messages :
       sv1' = [sv1 EXCEPT !.ch2 = Append(@, Sv1Entry(2, message)),
                          !.delivered = @ + 1]
  /\ UNCHANGED <<graph, mainp, wavetypes, waveguide, waves, freeverb, twin,
               fourier, basic>>

\* audio, line 226: midi_receiver1.try_iter().collect()
Sv1AudioBegin ==
  /\ sv1.pc = "idle"
  /\ sv1.buffers < MaxBuffers
  /\ Len(sv1.scope_q) + sv1.frames_per_buffer <= MaxFrames
  /\ LET c == TryIter(sv1.ch1)
     IN sv1' = [sv1 EXCEPT !.pc = "collect",
                           !.midi_messages = c.taken,
                           !.ch1 = c.left,
                           !.frames_left = sv1.frames_per_buffer,
                           !.buffers = @ + 1,
                           !.buffer = <<>>,
                           !.start_pending = IdsOf(sv1.ch1) \cup IdsOf(sv1.ch2)]
  /\ UNCHANGED <<graph, mainp, wavetypes, waveguide, waves, freeverb, twin,
               fourier, basic>>

\* audio, lines 227-254: extend with the second receiver, then apply
Sv1AudioDrain ==
  /\ sv1.pc = "collect"
  /\ LET c == TryIter(sv1.ch2)
         m == Extend(sv1.midi_messages, c.taken)
     IN sv1' = [Sv1ApplyAll(sv1, m) EXCEPT !.pc = "render",
                                           !.midi_messages = <<>>,
                                           !.ch2 = c.left]
  /\ UNCHANGED <<graph, mainp, wavetypes, waveguide, waves, freeverb, twin,
               fourier, basic>>

\* audio, lines 256-264: the body of the loop over buffer.frames_mut(); the
\* vector of drained messages is dropped when the callback returns
Sv1AudioRender ==
  /\ sv1.pc = "render"
  /\ sv1.frames_left > 0
  /\ LET f == Sv1Frame(sv1.evals)
     IN sv1' = [sv1 EXCEPT
                  !.pc = IF sv1.frames_left = 1 THEN "idle" ELSE "render",
                  !.frames_left = @ - 1,
                  !.applied = IF sv1.frames_left = 1 THEN <<>> ELSE @,
                  !.start_pending = IF sv1.frames_left = 1 THEN {} ELSE @,
                  !.evals = f.evals,
                  !.scope_q = @ \o f.sent,
                  !.rendered = Append(@, f.amp),
                  !.buffer = Append(@, [plays |-> f.plays, amp |-> f.amp,
                                        channels |-> f.channels, sent |-> f.sent])]
  /\ UNCHANGED <<graph, mainp, wavetypes, waveguide, waves, freeverb, twin,
               fourier, basic>>

\* fn update: model.scope_data = scope_receiver.try_iter().collect()
Sv1Update ==
  /\ sv1.pc # "off"
  /\ sv1.scope_q # <<>> \/ sv1.scope_data # <<>>
  /\ sv1' = [sv1 EXCEPT !.scope_data = sv1.scope_q,
                        !.received = @ \o sv1.scope_q,
                        !.scope_q = <<>>]
  /\ UNCHANGED <<graph, mainp, wavetypes, waveguide, waves, freeverb, twin,
               fourier, basic>>

Sv1Next ==
  \/ Sv1MidiIn1
  \/ Sv1MidiIn2
  \/ Sv1AudioBegin
  \/ Sv1AudioDrain
  \/ Sv1AudioRender
  \/ Sv1Update

InitSv1 ==
  /\ Sv1Init
  /\ graph = Off
  /\ mainp = Off
  /\ wavetypes = Off
  /\ waveguide = Off
  /\ waves = Off
  /\ freeverb = Off
  /\ twin = Off
  /\ fourier = Off
  /\ basic = Off

SpecSv1 == InitSv1 /\ [][Sv1Next]_vars

---------------------------------------------------------------------------
(* src/main.rs *)

\* math::round::half_up(value, digits) for value >= 0, with unit = 10^-digits
HalfUp(value, unit) == ((value + unit \div 2) \div unit) * unit

\* the setters of the library a closure calls, as the parameter they write
Write(key, value) == [key |-> key, value |-> value]

\* a parameter no closure has written yet
Unset == 0 - 1

\* the parameters of the voice the closures of update() write
MainKeys ==
  {"modulator_hz", "modulator_base_hz", "modulator_mod_idx", "sine_mod_hz",
   "lerp3_knob", "biquad_off", "biquad_cutoff", "biquad_q", "biquad_t",
   "adsr_on", "adsr_attack", "adsr_decay", "adsr_sustain_level",
   "adsr_release"}

\* one setter of the library run on the voice
ApplyWrite(voice, w) == [voice EXCEPT ![w.key] = w.value]

\* a closure run by the stream on the synth: its setters in order
RECURSIVE ApplyWrites(_, _)
ApplyWrites(voice, writes) ==
  IF writes = <<>> THEN voice
  ELSE ApplyWrites(ApplyWrite(voice, Head(writes)), Tail(writes))

\* update: the closure sent for a note-on message
MainNoteOn(hz) ==
  <<Write("modulator_hz", hz), Write("modulator_base_hz", hz),
    Write("adsr_on", 1)>>

\* update: the closure sent for a note-off message
MainNoteOff == <<Write("adsr_on", 0)>>

\* update: the body of `for message in midi_messages` for one message, on
\* st = [hz, cmds, panicked, log]; message[1] is read before the length is
\* looked at and panics on a message of fewer than two bytes.  The log notes
\* what the body did with each message of a length other than 3.
MainMidiStep(st, message) ==
  IF st.panicked THEN st
  ELSE IF Len(message) < 2
  THEN [st EXCEPT !.panicked = TRUE,
                  !.log = Append(@, [bytes |-> message, hz_before |-> st.hz,
                                     hz_after |-> st.hz, sent |-> 0,
                                     panicked |-> TRUE])]
  ELSE LET step == message[2]
           hz   == HzFromStep(step)
           cmds == IF Len(message) = 3
                   THEN IF message[1] = 144 THEN <<MainNoteOn(hz)>>
                        ELSE IF message[1] = 128 THEN <<MainNoteOff>>
                        ELSE <<>>
                   ELSE <<>>
       IN [st EXCEPT !.hz = hz,
                     !.cmds = @ \o cmds,
                     !.log = IF Len(message) = 3 THEN @
                             ELSE Append(@, [bytes |-> message,
                                             hz_before |-> st.hz,
                                             hz_after |-> hz,
                                             sent |-> Len(cmds),
                                             panicked |-> FALSE])]

\* update: `for message in midi_messages`
RECURSIVE MainMidiLoop(_, _)
MainMidiLoop(st, msgs) ==
  IF msgs = <<>> THEN st
  ELSE MainMidiLoop(MainMidiStep(st, Head(msgs)), Tail(msgs))

\* update: the ten sliders; m is the Model, raw the value the slider reports.
\* Each gives the Model after its body and the closure it sends.
MainSlider(m, slider, raw) ==
  CASE slider = "knob" ->
         LET value == HalfUp(raw, Scale \div 10)
         IN [model |-> [m EXCEPT !.knob = value],
             cmd   |-> <<Write("lerp3_knob", value)>>]
    [] slider = "ratio" ->
         LET value == HalfUp(raw, Scale)
         IN [model |-> [m EXCEPT !.ratio = value],
             cmd   |-> <<Write("sine_mod_hz", DivQ(m.hz, value))>>]
    [] slider = "mod_idx" ->
         LET value == HalfUp(raw, Scale)
         IN [model |-> [m EXCEPT !.mod_idx = value],
             cmd   |-> <<Write("modulator_mod_idx", value)>>]
    [] slider = "cutoff" ->
         LET value == HalfUp(raw, 10 * Scale)
         IN [model |-> [m EXCEPT !.cutoff = value],
             cmd   |-> IF value < Q(1)
                       THEN <<Write("biquad_off", 1)>>
                       ELSE <<Write("biquad_off", 0),
                              Write("biquad_cutoff", value),
                              Write("biquad_q", m.q), Write("biquad_t", m.t)>>]
    [] slider = "q" ->
         [model |-> [m EXCEPT !.q = raw],
          cmd   |-> <<Write("biquad_cutoff", m.cutoff), Write("biquad_q", raw),
                      Write("biquad_t", m.t)>>]
    [] slider = "t" ->
         [model |-> [m EXCEPT !.t = raw],
          cmd   |-> <<Write("biquad_cutoff", m.cutoff), Write("biquad_q", m.q),
                      Write("biquad_t", raw)>>]
    [] slider = "attack" ->
         [model |-> [m EXCEPT !.attack = raw],
          cmd   |-> <<Write("adsr_attack", raw)>>]
    [] slider = "decay" ->
         [model |-> [m EXCEPT !.decay = raw],
          cmd   |-> <<Write("adsr_decay", raw)>>]
    [] slider = "sustain_level" ->
         [model |-> [m EXCEPT !.sustain_level = raw],
          cmd   |-> <<Write("adsr_sustain_level", raw)>>]
    [] slider = "release" ->
         [model |-> [m EXCEPT !.release = raw],
          cmd   |-> <<Write("adsr_release", raw)>>]

\* the slider a user moves during one update, and the value it reports
MainSlides ==
  {<<"knob", Quarter>>, <<"ratio", 3 * Half>>, <<"mod_idx", 12 * Quarter>>,
   <<"cutoff", Quarter>>, <<"cutoff", Q(444)>>, <<"q", Q(2)>>, <<"t", Half>>,
   <<"attack", Half>>, <<"decay", Half>>, <<"sustain_level", Half>>,
   <<"release", Half>>}

NoSlide == <<"none", 0>>

\* the MIDI messages the listener thread may deliver
MainMessages ==
  {<<>>, <<144, 57>>, <<144, 57, 100>>, <<128, 57, 0>>}

\* audio, one frame: evaluate the voice once, write every channel, send to
\* the scope
MainFrame(evals) ==
  LET r   == RackSignal(evals)
      amp == 0 + r.out
  IN [evals    |-> r.evals,
      plays    |-> r.evals - evals,
      amp      |-> amp,
      channels |-> [c \in 1..NumChannels |-> amp],
      sent     |-> <<amp>>]

\* fn model
MainInit ==
  \E fpb \in 1..MaxFrames :
    mainp = [pc          |-> "idle",
             panicked    |-> FALSE,
             frames_per_buffer |-> fpb,
             model       |-> [hz |-> Q(440), knob |-> Half, ratio |-> Q(1),
                              mod_idx |-> 0, cutoff |-> 0, q |-> 7070,
                              t |-> Q(1), attack |-> 2000, decay |-> 1000,
                              sustain_level |-> 8000, release |-> 2000],
             voice       |-> [k \in MainKeys |-> Unset],
             midi_q      |-> <<>>,
             stream_q    |-> <<>>,
             pending     |-> <<>>,
             viz_q       |-> <<>>,
             amps        |-> <<>>,
             frames_left |-> 0,
             buffers     |-> 0,
             delivered   |-> 0,
             evals       |-> 0,
             buffer      |-> <<>>,
             rendered    |-> <<>>,
             received    |-> <<>>,
             upd_log     |-> <<>>]

MainRunning == mainp.pc # "off" /\ ~mainp.panicked

\* listen_midi's callback: midi_sender.send(message.to_vec())
MainMidiIn ==
  /\ MainRunning
  /\ mainp.delivered < MaxMsgs
  /\ \E message \in MainMessages :
       mainp' = [mainp EXCEPT !.midi_q = Append(@, message),
                              !.delivered = @ + 1]
  /\ UNCHANGED <<graph, sv1, wavetypes, waveguide, waves, freeverb, twin,
               fourier, basic>>

\* fn update: the MIDI loop, the scope samples, then the sliders, of which the
\* user moves at most one; a panic in the MIDI loop ends the program
MainUpdate ==
  /\ MainRunning
  /\ \E slide \in MainSlides \cup {NoSlide} :
       /\ slide # NoSlide => mainp.delivered < MaxMsgs
       /\ LET st == MainMidiLoop([hz |-> mainp.model.hz, cmds |-> <<>>,
                                  panicked |-> FALSE, log |-> <<>>],
                                 mainp.midi_q)
              m1 == [mainp.model EXCEPT !.hz = st.hz]
          IN IF st.panicked
             THEN mainp' = [mainp EXCEPT !.panicked = TRUE,
                                         !.model = m1,
                                         !.midi_q = <<>>,
                                         !.stream_q = @ \o st.cmds,
                                         !.upd_log = st.log]
             ELSE LET s == IF slide = NoSlide
                           THEN [model |-> m1, cmd |-> <<>>]
                           ELSE MainSlider(m1, slide[1], slide[2])
                  IN mainp' =
                       [mainp EXCEPT
                          !.model = s.model,
                          !.midi_q = <<>>,
                          !.viz_q = <<>>,
                          !.amps = mainp.viz_q,
                          !.received = @ \o mainp.viz_q,
                          !.delivered = IF slide = NoSlide THEN @ ELSE @ + 1,
                          !.stream_q = @ \o st.cmds \o
                                         (IF slide = NoSlide THEN <<>>
                                          ELSE <<s.cmd>>),
                          !.upd_log = st.log]
  /\ UNCHANGED <<graph, sv1, wavetypes, waveguide, waves, freeverb, twin,
               fourier, basic>>

\* the audio callback starts: the stream takes the closures sent so far
MainAudioBegin ==
  /\ MainRunning
  /\ mainp.pc = "idle"
  /\ mainp.buffers < MaxBuffers
  /\ Len(mainp.viz_q) + mainp.frames_per_buffer <= MaxFrames
  /\ mainp' = [mainp EXCEPT !.pc = "drain",
                            !.pending = mainp.stream_q,
                            !.stream_q = <<>>,
                            !.frames_left = mainp.frames_per_buffer,
                            !.buffers = @ + 1,
                            !.buffer = <<>>]
  /\ UNCHANGED <<graph, sv1, wavetypes, waveguide, waves, freeverb, twin,
               fourier, basic>>

\* the stream runs one closure on the synth
MainApply ==
  /\ MainRunning
  /\ mainp.pc = "drain"
  /\ mainp.pending # <<>>
  /\ mainp' = [mainp EXCEPT !.pending = Tail(@),
                            !.voice = ApplyWrites(@, Head(mainp.pending))]
  /\ UNCHANGED <<graph, sv1, wavetypes, waveguide, waves, freeverb, twin,
               fourier, basic>>

\* fn audio: the body of the loop over buffer.frames_mut()
MainRender ==
  /\ MainRunning
  /\ mainp.pc \in {"drain", "render"}
  /\ mainp.pending = <<>>
  /\ mainp.frames_left > 0
  /\ LET f == MainFrame(mainp.evals)
     IN mainp' =
          [mainp EXCEPT
             !.pc = IF mainp.frames_left = 1 THEN "idle" ELSE "render",
             !.frames_left = @ - 1,
             !.evals = f.evals,
             !.viz_q = @ \o f.sent,
             !.rendered = Append(@, f.amp),
             !.buffer = Append(@, [plays |-> f.plays, amp |-> f.amp,
                                   channels |-> f.channels, sent |-> f.sent])]
  /\ UNCHANGED <<graph, sv1, wavetypes, waveguide, waves, freeverb, twin,
               fourier, basic>>

MainNext ==
  \/ MainMidiIn
  \/ MainUpdate
  \/ MainAudioBegin
  \/ MainApply
  \/ MainRender

InitMain ==
  /\ MainInit
  /\ graph = Off
  /\ sv1 = Off
  /\ wavetypes = Off
  /\ waveguide = Off
  /\ waves = Off
  /\ freeverb = Off
  /\ twin = Off
  /\ fourier = Off
  /\ basic = Off

SpecMain == InitMain /\ [][MainNext]_vars

---------------------------------------------------------------------------
(* The three applications with a MIDI handler and a render callback: one of
   examples/graph.rs, src/bin/sv1.rs and src/main.rs is started *)

InitApps ==
  \/ InitGraph
  \/ InitSv1
  \/ InitMain

AppsNext ==
  \/ GraphNext
  \/ Sv1Next
  \/ MainNext

SpecApps == InitApps /\ [][AppsNext]_vars

---------------------------------------------------------------------------
(* examples/wavetypes.rs *)

\* A frequency is held as its distance in semitones from HZ = 440:
\* the value k stands for 440 * 2^(k/12), so that hz * 2.0.powf(i / 12.) is
\* k + i.

\* 0.0 / 0.0 in f32
NaN == 0 - 1

\* ws[i] / a in the closure update() sends
MixLevel(w, a) == IF a = 0 THEN NaN ELSE DivQ(Q(w), Q(a))

\* ws.iter().sum()
RECURSIVE SumSeq(_)
SumSeq(s) == IF s = <<>> THEN 0 ELSE Head(s) + SumSeq(Tail(s))

\* update: the closure that sets the four amplitudes
MixCmd(ws) == [op |-> "mix", ws |-> ws, i |-> 0, square_hz |-> 0]

\* key_pressed: the closure change_hz(i) builds, with the captured square_hz
ChangeHzCmd(i, square_hz) ==
  [op |-> "change_hz", ws |-> <<>>, i |-> i, square_hz |-> square_hz]

\* the body of a closure, run on synth.voice
ApplyWaveCmd(voice, cmd) ==
  IF cmd.op = "mix"
  THEN LET a == SumSeq(cmd.ws)
       IN [voice EXCEPT !.amplitude =
             [n \in 1..4 |-> MixLevel(cmd.ws[n], a)]]
  ELSE [voice EXCEPT !.hz =
          <<voice.hz[1] + cmd.i, cmd.square_hz + cmd.i,
            voice.hz[3] + cmd.i, voice.hz[4] + cmd.i>>]

\* amps.iter().max_by(..) folded into the stored maximum
RECURSIVE MaxAmp(_, _)
MaxAmp(amps, max) ==
  IF amps = <<>> THEN max
  ELSE MaxAmp(Tail(amps), IF max > Head(amps) THEN max ELSE Head(amps))

\* audio, one frame: sample the voice, advance its phase, write every
\* channel, send to the scope
WaveFrame(evals) ==
  LET r   == RackSignal(evals)
      amp == 0 + r.out
  IN [evals    |-> r.evals,
      plays    |-> r.evals - evals,
      amp      |-> amp,
      channels |-> [c \in 1..NumChannels |-> amp],
      sent     |-> <<amp>>]

\* a thread taking the lock of a wave of the voice
Touch(thread, wave) == [thread |-> thread, wave |-> wave]

AllWaves == {"wave1", "wave2", "wave3", "wave4"}

Keys == {"Space", "Up", "Down", "A"}

\* fn model: wave1 sounds, the other three are silent; model.squarewave is
\* the square wave handed to the voice as wave2
WaveInit ==
  \E fpb \in 1..MaxFrames :
    wavetypes = [pc           |-> "idle",
                 frames_per_buffer |-> fpb,
                 playing      |-> TRUE,
                 voice        |-> [hz |-> <<0, 0, 0, 0>>,
                                   amplitude |-> <<Q(1), 0, 0, 0>>],
                 wave_indices |-> <<1, 0, 0, 0>>,
                 max_amp      |-> 0,
                 amps         |-> <<>>,
                 viz_q        |-> <<>>,
                 stream_q     |-> <<>>,
                 pending      |-> <<>>,
                 frames_left  |-> 0,
                 buffers      |-> 0,
                 delivered    |-> 0,
                 evals        |-> 0,
                 buffer       |-> <<>>,
                 touched      |-> {}]

\* fn key_pressed
WaveKeyPressed ==
  /\ wavetypes.pc # "off"
  /\ wavetypes.delivered < MaxMsgs
  /\ \E key \in Keys :
       LET square_hz == wavetypes.voice.hz[2]
           w1 == [wavetypes EXCEPT
                    !.max_amp = 0,
                    !.delivered = @ + 1,
                    !.touched = @ \cup {Touch("ui", "wave2")}]
       IN CASE key = "Space" ->
                 wavetypes' = [w1 EXCEPT !.playing = ~wavetypes.playing]
            [] key = "Up" ->
                 wavetypes' = [w1 EXCEPT !.stream_q =
                                    Append(@, ChangeHzCmd(1, square_hz))]
            [] key = "Down" ->
                 wavetypes' = [w1 EXCEPT !.stream_q =
                                    Append(@, ChangeHzCmd(0 - 1, square_hz))]
            [] OTHER -> wavetypes' = w1
  /\ UNCHANGED <<graph, sv1, mainp, waveguide, waves, freeverb, twin,
               fourier, basic>>

\* fn update, with the user clicking toggle `click` (0: none)
WaveUpdate ==
  /\ wavetypes.pc # "off"
  /\ Len(wavetypes.stream_q) < MaxMsgs
  /\ \E click \in 0..4 :
       /\ click # 0 => wavetypes.delivered < MaxMsgs
       /\ LET amps == wavetypes.viz_q
              ws   == [n \in 1..4 |->
                         IF n = click
                         THEN (IF wavetypes.wave_indices[n] > 0 THEN 0 ELSE 1)
                         ELSE wavetypes.wave_indices[n]]
          IN wavetypes' =
               [wavetypes EXCEPT
                  !.viz_q = <<>>,
                  !.amps = amps,
                  !.max_amp = MaxAmp(amps, @),
                  !.wave_indices = ws,
                  !.delivered = IF click = 0 THEN @ ELSE @ + 1,
                  !.stream_q = Append(@, MixCmd(ws))]
  /\ UNCHANGED <<graph, sv1, mainp, waveguide, waves, freeverb, twin,
               fourier, basic>>

\* the audio callback starts (the stream is playing): the stream takes the
\* closures sent so far
WaveAudioBegin ==
  /\ wavetypes.pc = "idle"
  /\ wavetypes.playing
  /\ wavetypes.buffers < MaxBuffers
  /\ Len(wavetypes.viz_q) + wavetypes.frames_per_buffer <= MaxFrames
  /\ wavetypes' = [wavetypes EXCEPT !.pc = "drain",
                                    !.pending = wavetypes.stream_q,
                                    !.stream_q = <<>>,
                                    !.frames_left = wavetypes.frames_per_buffer,
                                    !.buffers = @ + 1,
                                    !.buffer = <<>>]
  /\ UNCHANGED <<graph, sv1, mainp, waveguide, waves, freeverb, twin,
               fourier, basic>>

\* the stream runs one closure on the synth; the closure locks the four waves
WaveApply ==
  /\ wavetypes.pc = "drain"
  /\ wavetypes.pending # <<>>
  /\ wavetypes' =
       [wavetypes EXCEPT
          !.pending = Tail(@),
          !.voice = ApplyWaveCmd(@, Head(wavetypes.pending)),
          !.touched = @ \cup {Touch("audio", w) : w \in AllWaves}]
  /\ UNCHANGED <<graph, sv1, mainp, waveguide, waves, freeverb, twin,
               fourier, basic>>

\* fn audio: the body of the loop over buffer.frames_mut()
WaveRender ==
  /\ wavetypes.pc \in {"drain", "render"}
  /\ wavetypes.pending = <<>>
  /\ wavetypes.frames_left > 0
  /\ LET f == WaveFrame(wavetypes.evals)
     IN wavetypes' =
          [wavetypes EXCEPT
             !.pc = IF wavetypes.frames_left = 1 THEN "idle" ELSE "render",
             !.frames_left = @ - 1,
             !.evals = f.evals,
             !.viz_q = @ \o f.sent,
             !.touched = @ \cup {Touch("audio", w) : w \in AllWaves},
             !.buffer = Append(@, [plays |-> f.plays, amp |-> f.amp,
                                   channels |-> f.channels, sent |-> f.sent])]
  /\ UNCHANGED <<graph, sv1, mainp, waveguide, waves, freeverb, twin,
               fourier, basic>>

WaveNext ==
  \/ WaveKeyPressed
  \/ WaveUpdate
  \/ WaveAudioBegin
  \/ WaveApply
  \/ WaveRender

InitWave ==
  /\ WaveInit
  /\ graph = Off
  /\ sv1 = Off
  /\ mainp = Off
  /\ waveguide = Off
  /\ waves = Off
  /\ freeverb = Off
  /\ twin = Off
  /\ fourier = Off
  /\ basic = Off

SpecWave == InitWave /\ [][WaveNext]_vars

---------------------------------------------------------------------------
(* oscen-lib/src/instruments.rs : the WaveGuide and its private rack *)

\* IdGen::new() and IdGen::id(): a counter handing out the next tag
IdGenNew == 0
IdGenId(gen) == [tag |-> gen, gen |-> gen + 1]

\* a node of a rack: its tag, the tags its inputs are bound to, and the
\* sample in which the output it holds was computed (0: none yet)
WGNode(name, tag, inputs) ==
  [name |-> name, tag |-> tag, inputs |-> inputs, stamp |-> 0]

\* Rack::append
RackAppend(rack, node) == Append(rack, node)

\* Rack::signal for sample n: the nodes are evaluated in the order of the
\* rack, each output stored before the next node runs; every input a node
\* reads is noted with the sample in which the value read was computed
RECURSIVE RackEval(_, _, _, _)
RackEval(rack, i, n, reads) ==
  IF i > Len(rack) THEN [rack |-> rack, reads |-> reads]
  ELSE LET node == rack[i]
           seen == {[reader |-> node.name, input |-> rack[j].name,
                     stamp |-> rack[j].stamp, sample |-> n] :
                      j \in {k \in 1..Len(rack) : rack[k].tag \in node.inputs}}
       IN RackEval([rack EXCEPT ![i].stamp = n], i + 1, n, reads \cup seen)

\* WaveGuide::new(id_gen, burst)
WaveGuideNew(id_gen, burst) ==
  LET id0      == IdGenNew
      i_input  == IdGenId(id0)
      input    == WGNode("input", i_input.tag, {})
      rack1    == RackAppend(<<>>, input)
      i_env    == IdGenId(i_input.gen)
      envelope == WGNode("envelope", i_env.tag, {})
      rack2    == RackAppend(rack1, envelope)
      i_exc    == IdGenId(i_env.gen)
      exciter  == WGNode("exciter", i_exc.tag, {input.tag, envelope.tag})
      rack3    == RackAppend(rack2, exciter)
      i_mix    == IdGenId(i_exc.gen)
      mixer0   == WGNode("mixer", i_mix.tag, {})
      i_delay  == IdGenId(i_mix.gen)
      delay    == WGNode("delay", i_delay.tag, {mixer0.tag})
      i_lpf    == IdGenId(i_delay.gen)
      lpf      == WGNode("lpf", i_lpf.tag, {delay.tag})
      mixer    == [mixer0 EXCEPT !.inputs = {exciter.tag, lpf.tag}]
      rack4    == RackAppend(rack3, lpf)
      rack5    == RackAppend(rack4, delay)
      rack6    == RackAppend(rack5, mixer)
      outer    == IdGenId(id_gen)
  IN [pc          |-> "idle",
      tag         |-> outer.tag,
      id_gen      |-> outer.gen,
      private_gen |-> i_lpf.gen,
      burst       |-> burst,
      hz          |-> Q(440),
      cutoff_freq |-> Q(2000),
      wet_decay   |-> 9500,
      envelope    |-> [on |-> FALSE, attack |-> 10, decay |-> 0,
                       sustain |-> 0, release |-> 10],
      input_value |-> 0,
      delay_time  |-> 200,
      rack        |-> rack6,
      samples     |-> 0,
      reads       |-> {}]

\* WaveGuide::signal for the next sample, with the burst node's output
WaveGuideSignal(wg, burst_out) ==
  LET hz == IF wg.hz > Q(1) THEN wg.hz ELSE Q(1)
      dt == DivQ(Q(1), hz)
      n  == wg.samples + 1
      ev == RackEval(wg.rack, 1, n, {})
  IN [wg EXCEPT !.input_value = burst_out,
                !.delay_time = dt,
                !.rack = ev.rack,
                !.samples = n,
                !.reads = ev.reads]

\* the values the builder methods are called with
WGHzValues == {Half, Q(220)}
WGEnvelopeParams == {"attack", "decay", "sustain", "release"}

\* a WaveGuide built in an outer rack whose IdGen has issued some tags, one
\* of them the burst node's
WaveGuideInit ==
  \E id_gen \in 1..MaxOuterNodes :
    \E burst \in 0..(id_gen - 1) :
      waveguide = WaveGuideNew(id_gen, burst)

\* WaveGuide::signal, called once per sample by the outer rack
WGSignal ==
  /\ waveguide.pc # "off"
  /\ waveguide.samples < MaxSamples
  /\ \E burst_out \in {0, Q(1)} :
       waveguide' = WaveGuideSignal(waveguide, burst_out)
  /\ UNCHANGED <<graph, sv1, mainp, wavetypes, waves, freeverb, twin,
               fourier, basic>>

\* WaveGuide::on
WGOn ==
  /\ waveguide.pc # "off"
  /\ waveguide' = [waveguide EXCEPT !.envelope.on = TRUE]
  /\ UNCHANGED <<graph, sv1, mainp, wavetypes, waves, freeverb, twin,
               fourier, basic>>

\* WaveGuide::off
WGOff ==
  /\ waveguide.pc # "off"
  /\ waveguide' = [waveguide EXCEPT !.envelope.on = FALSE]
  /\ UNCHANGED <<graph, sv1, mainp, wavetypes, waves, freeverb, twin,
               fourier, basic>>

\* WaveGuide::hz
WGHz ==
  /\ waveguide.pc # "off"
  /\ \E arg \in WGHzValues : waveguide' = [waveguide EXCEPT !.hz = arg]
  /\ UNCHANGED <<graph, sv1, mainp, wavetypes, waves, freeverb, twin,
               fourier, basic>>

\* WaveGuide::attack, decay, sustain and release
WGEnvelope ==
  /\ waveguide.pc # "off"
  /\ \E param \in WGEnvelopeParams :
       waveguide' = [waveguide EXCEPT !.envelope[param] = Half]
  /\ UNCHANGED <<graph, sv1, mainp, wavetypes, waves, freeverb, twin,
               fourier, basic>>

\* WaveGuide::cutoff_freq
WGCutoffFreq ==
  /\ waveguide.pc # "off"
  /\ waveguide' = [waveguide EXCEPT !.cutoff_freq = Q(1000)]
  /\ UNCHANGED <<graph, sv1, mainp, wavetypes, waves, freeverb, twin,
               fourier, basic>>

\* WaveGuide::wet_decay
WGWetDecay ==
  /\ waveguide.pc # "off"
  /\ waveguide' = [waveguide EXCEPT !.wet_decay = Half]
  /\ UNCHANGED <<graph, sv1, mainp, wavetypes, waves, freeverb, twin,
               fourier, basic>>

WGNext ==
  \/ WGSignal
  \/ WGOn
  \/ WGOff
  \/ WGHz
  \/ WGEnvelope
  \/ WGCutoffFreq
  \/ WGWetDecay

InitWG ==
  /\ WaveGuideInit
  /\ graph = Off
  /\ sv1 = Off
  /\ mainp = Off
  /\ wavetypes = Off
  /\ waves = Off
  /\ freeverb = Off
  /\ twin = Off
  /\ fourier = Off
  /\ basic = Off

SpecWG == InitWG /\ [][WGNext]_vars

---------------------------------------------------------------------------
(* src/reverb.rs : the Freeverb and its private rack *)

\* nodes the outer rack holds before a Freeverb is built, at most
MaxOuterTags == 2

SCALE_WET == Q(3)
SCALE_DAMPENING == 4000
SCALE_ROOM == 2800
OFFSET_ROOM == 7000

\* mk_tag(): the next tag of the process-wide counter
MkTag(counter) == [tag |-> counter, counter |-> counter + 1]

\* Link::new, Comb::new, Mixer::new and AllPass::new: a node of the private
\* rack with the tag mk_tag() gave it; a Comb starts with feedback 0.5 and
\* damping 0.5
FvNode(kind, tag) ==
  [kind     |-> kind,
   tag      |-> tag,
   feedback |-> IF kind = "Comb" THEN Half ELSE 0,
   damping  |-> IF kind = "Comb" THEN Half ELSE 0,
   value    |-> 0]

\* Comb::set(rack, tag, field, value): the node with that tag is downcast to
\* Comb and the field is written; a node of another type is left alone
CombSet(rack, tag, field, value) ==
  [i \in 1..Len(rack) |->
     IF rack[i].tag = tag /\ rack[i].kind = "Comb"
     THEN [rack[i] EXCEPT ![field] = value]
     ELSE rack[i]]

\* Link::set(rack, tag, "value", value), likewise for a Link
LinkSet(rack, tag, value) ==
  [i \in 1..Len(rack) |->
     IF rack[i].tag = tag /\ rack[i].kind = "Link"
     THEN [rack[i] EXCEPT !.value = value]
     ELSE rack[i]]

\* the kinds of the fourteen nodes Freeverb::new hands to Rack::new, in order
FvKinds ==
  <<"Link", "Comb", "Comb", "Comb", "Comb", "Comb", "Comb", "Comb", "Comb",
    "Mixer", "AllPass", "AllPass", "AllPass", "AllPass">>

NoOutput == [taken |-> FALSE]

\* Freeverb::new(wave), the counter of mk_tag standing at `counter`: the
\* fourteen nodes take the next tags in the order they are built, then the
\* Freeverb takes its own
FreeverbNew(wave, counter) ==
  [pc          |-> "idle",
   tag         |-> counter + Len(FvKinds),
   counter     |-> counter + Len(FvKinds) + 1,
   wave        |-> wave,
   rack        |-> [i \in 1..Len(FvKinds) |-> FvNode(FvKinds[i], counter + i - 1)],
   wet_gain    |-> Half,
   wet         |-> Q(1),
   dry         |-> 0,
   input_gain  |-> Half,
   width       |-> Half,
   dampening   |-> Half,
   room_size   |-> Half,
   frozen      |-> FALSE,
   last_room   |-> Unset,
   last_damp   |-> Unset,
   combs_set   |-> FALSE,
   out         |-> NoOutput]

\* the loop of update_combs from position i of rack.order on: both fields
\* are set on every tag
RECURSIVE UpdateCombsFrom(_, _, _, _)
UpdateCombsFrom(rack, i, feedback, dampening) ==
  IF i > Len(rack) THEN rack
  ELSE UpdateCombsFrom(
         CombSet(CombSet(rack, rack[i].tag, "feedback", feedback),
                 rack[i].tag, "damping", dampening),
         i + 1, feedback, dampening)

\* update_combs leaving the loop after the first node it finds to be a Comb
UpdateCombsFirstOnly(fv) ==
  LET feedback  == IF fv.frozen THEN Q(1) ELSE fv.room_size
      dampening == IF fv.frozen THEN 0 ELSE fv.dampening
      first     == CHOOSE i \in 1..Len(fv.rack) :
                     /\ fv.rack[i].kind = "Comb"
                     /\ \A j \in 1..(i - 1) : fv.rack[j].kind # "Comb"
  IN [fv EXCEPT !.rack = CombSet(CombSet(fv.rack, fv.rack[first].tag,
                                         "feedback", feedback),
                                 fv.rack[first].tag, "damping", dampening),
                !.combs_set = TRUE]

\* Freeverb::update_combs: Comb::set on every tag of rack.order
UpdateCombs(fv) ==
  LET feedback  == IF fv.frozen THEN Q(1) ELSE fv.room_size
      dampening == IF fv.frozen THEN 0 ELSE fv.dampening
  IN [fv EXCEPT !.rack = UpdateCombsFrom(fv.rack, 1, feedback, dampening),
                !.combs_set = TRUE]

\* Freeverb::update_wet_gains
UpdateWetGains(fv) ==
  [fv EXCEPT !.wet_gain = MulQ(fv.wet, DivQ(fv.width, Q(2)) + Half)]

\* the setters
SetDampening(fv, value) ==
  UpdateCombs([fv EXCEPT !.dampening = MulQ(value, SCALE_DAMPENING),
                         !.last_damp = value])

SetFreeze(fv, frozen) == UpdateCombs([fv EXCEPT !.frozen = frozen])

SetWet(fv, value) == UpdateWetGains([fv EXCEPT !.wet = MulQ(value, SCALE_WET)])

SetWidth(fv, value) == UpdateWetGains([fv EXCEPT !.width = value])

SetFrozen(fv, frozen) ==
  UpdateCombs([fv EXCEPT !.frozen = frozen,
                         !.input_gain = IF frozen THEN 0 ELSE Q(1)])

SetRoomSize(fv, value) ==
  UpdateCombs([fv EXCEPT !.room_size = MulQ(value, SCALE_ROOM) + OFFSET_ROOM,
                         !.last_room = value])

SetDry(fv, value) == [fv EXCEPT !.dry = value]

\* Freeverb::signal, inp being the outer rack's output of `wave` and
\* rack_out what the private rack returns for the sample; fed is the value
\* handed to Link::set for the private rack
FreeverbSignal(fv, inp, rack_out) ==
  [fv EXCEPT !.rack = LinkSet(fv.rack, fv.wave, inp),
             !.out  = [taken |-> TRUE, inp |-> inp, fed |-> inp,
                       rack_out |-> rack_out,
                       value |-> MulQ(rack_out, fv.wet_gain) + MulQ(inp, fv.dry)]]

\* the values the setters are called with and the samples that occur
FvValues == {0, Half, Q(1)}
FvSamples == {0, Q(1)}

\* a Freeverb built on the last node of an outer rack whose nodes took the
\* first tags of the counter
FreeverbInit ==
  \E counter \in 1..MaxOuterTags :
    freeverb = FreeverbNew(counter - 1, counter)

FvSetDampening ==
  /\ freeverb.pc # "off"
  /\ \E value \in FvValues :
       freeverb' = [SetDampening(freeverb, value) EXCEPT !.out = NoOutput]
  /\ UNCHANGED <<graph, sv1, mainp, wavetypes, waveguide, waves, twin,
               fourier, basic>>

FvSetFreeze ==
  /\ freeverb.pc # "off"
  /\ \E frozen \in BOOLEAN :
       freeverb' = [SetFreeze(freeverb, frozen) EXCEPT !.out = NoOutput]
  /\ UNCHANGED <<graph, sv1, mainp, wavetypes, waveguide, waves, twin,
               fourier, basic>>

FvSetWet ==
  /\ freeverb.pc # "off"
  /\ \E value \in FvValues :
       freeverb' = [SetWet(freeverb, value) EXCEPT !.out = NoOutput]
  /\ UNCHANGED <<graph, sv1, mainp, wavetypes, waveguide, waves, twin,
               fourier, basic>>

FvSetWidth ==
  /\ freeverb.pc # "off"
  /\ \E value \in FvValues :
       freeverb' = [SetWidth(freeverb, value) EXCEPT !.out = NoOutput]
  /\ UNCHANGED <<graph, sv1, mainp, wavetypes, waveguide, waves, twin,
               fourier, basic>>

FvSetFrozen ==
  /\ freeverb.pc # "off"
  /\ \E frozen \in BOOLEAN :
       freeverb' = [SetFrozen(freeverb, frozen) EXCEPT !.out = NoOutput]
  /\ UNCHANGED <<graph, sv1, mainp, wavetypes, waveguide, waves, twin,
               fourier, basic>>

FvSetRoomSize ==
  /\ freeverb.pc # "off"
  /\ \E value \in FvValues :
       freeverb' = [SetRoomSize(freeverb, value) EXCEPT !.out = NoOutput]
  /\ UNCHANGED <<graph, sv1, mainp, wavetypes, waveguide, waves, twin,
               fourier, basic>>

FvSetDry ==
  /\ freeverb.pc # "off"
  /\ \E value \in FvValues :
       freeverb' = [SetDry(freeverb, value) EXCEPT !.out = NoOutput]
  /\ UNCHANGED <<graph, sv1, mainp, wavetypes, waveguide, waves, twin,
               fourier, basic>>

FvSignal ==
  /\ freeverb.pc # "off"
  /\ \E inp \in FvSamples, rack_out \in FvSamples :
       freeverb' = FreeverbSignal(freeverb, inp, rack_out)
  /\ UNCHANGED <<graph, sv1, mainp, wavetypes, waveguide, waves, twin,
               fourier, basic>>

FvNext ==
  \/ FvSetDampening
  \/ FvSetFreeze
  \/ FvSetWet
  \/ FvSetWidth
  \/ FvSetFrozen
  \/ FvSetRoomSize
  \/ FvSetDry
  \/ FvSignal

InitFv ==
  /\ FreeverbInit
  /\ graph = Off
  /\ sv1 = Off
  /\ mainp = Off
  /\ wavetypes = Off
  /\ waveguide = Off
  /\ waves = Off
  /\ twin = Off
  /\ fourier = Off
  /\ basic = Off

SpecFv == InitFv /\ [][FvNext]_vars

---------------------------------------------------------------------------
(* src/lib.rs : WaveParams, SquareWave, ADSRWave and LerpWave *)

\* calls of update_phase made on one LerpWave in one run
MaxCalls == 10

\* WaveParams::new
WaveParamsNew(hz) == [hz |-> hz, amplitude |-> Q(1), phase |-> 0]

\* update_phase reducing the phase modulo 1
UpdatePhaseModOne(wp, sample_rate) ==
  [wp EXCEPT !.phase = FMod(wp.phase + DivQ(wp.hz, sample_rate), Scale)]

\* WaveParams::update_phase
UpdatePhase(wp, sample_rate) ==
  [wp EXCEPT !.phase = FMod(wp.phase + DivQ(wp.hz, sample_rate), sample_rate)]

\* SquareWave's sample looking at the whole phase
SquareWaveSampleWholePhase(wave) ==
  LET amp == wave.amplitude
      t   == wave.phase
  IN IF t * 1000 < Q(1) THEN 0
     ELSE IF t <= Half THEN amp
     ELSE 0 - amp

\* basic_wave!(SquareWave, ...): the sample of a SquareWave
SquareWaveSample(wave) ==
  LET amp == wave.amplitude
      t   == wave.phase - FloorQ(wave.phase)
  IN IF t * 1000 < Q(1) THEN 0
     ELSE IF t <= Half THEN amp
     ELSE 0 - amp

\* ADSRWave::new
ADSRWaveNew(attack, decay, sustain_time, sustain_level, release) ==
  [attack        |-> attack,
   decay         |-> decay,
   sustain_time  |-> sustain_time,
   sustain_level |-> sustain_level,
   release       |-> release,
   current_time  |-> 0]

\* adsr with the release arm left out
AdsrNoRelease(wave, t) ==
  LET a  == wave.attack
      d  == wave.decay
      s  == wave.sustain_time
      sl == wave.sustain_level
  IN IF t < a THEN DivQ(t, a)
     ELSE IF t < a + d THEN Q(1) + DivQ(MulQ(t - a, sl - Q(1)), d)
     ELSE IF t < a + d + s THEN sl
     ELSE 0

\* ADSRWave::adsr
Adsr(wave, t) ==
  LET a  == wave.attack
      d  == wave.decay
      s  == wave.sustain_time
      r  == wave.release
      sl == wave.sustain_level
  IN IF t < a THEN DivQ(t, a)
     ELSE IF t < a + d THEN Q(1) + DivQ(MulQ(t - a, sl - Q(1)), d)
     ELSE IF t < a + d + s THEN sl
     ELSE IF t < a + d + s + r THEN sl - DivQ(MulQ(t - a - d - s, sl), r)
     ELSE 0

\* the guards of adsr with <= in place of <
AdsrArmClosed(wave, t) ==
  LET a == wave.attack
      d == wave.decay
      s == wave.sustain_time
      r == wave.release
  IN IF t <= a THEN "attack"
     ELSE IF t <= a + d THEN "decay"
     ELSE IF t <= a + d + s THEN "sustain"
     ELSE IF t <= a + d + s + r THEN "release"
     ELSE "end"

\* ADSRWave::adsr: the arm of the match the guards select for t
AdsrArm(wave, t) ==
  LET a == wave.attack
      d == wave.decay
      s == wave.sustain_time
      r == wave.release
  IN IF t < a THEN "attack"
     ELSE IF t < a + d THEN "decay"
     ELSE IF t < a + d + s THEN "sustain"
     ELSE IF t < a + d + s + r THEN "release"
     ELSE "end"

\* ADSRWave::adsr: what the selected arm divides by (1 where it does not
\* divide)
AdsrDivisor(wave, t) ==
  CASE AdsrArm(wave, t) = "attack"  -> wave.attack
    [] AdsrArm(wave, t) = "decay"   -> wave.decay
    [] AdsrArm(wave, t) = "release" -> wave.release
    [] OTHER                        -> Q(1)

\* impl Wave for ADSRWave: sample and update_phase
ADSRWaveSample(wave) == Adsr(wave, wave.current_time)

\* update_phase starting the envelope again when it has run out
ADSRWaveUpdatePhaseLooping(wave, sample_rate) ==
  LET t   == wave.current_time + DivQ(Q(1), sample_rate)
      end == wave.attack + wave.decay + wave.sustain_time + wave.release
  IN [wave EXCEPT !.current_time = IF t >= end THEN 0 ELSE t]

ADSRWaveUpdatePhase(wave, sample_rate) ==
  [wave EXCEPT !.current_time = @ + DivQ(Q(1), sample_rate)]

\* LerpWave::new over a SquareWave and an ADSRWave
LerpWaveNew(wave1, wave2, alpha) ==
  [wave1 |-> wave1, wave2 |-> wave2, alpha |-> alpha]

\* impl Wave for LerpWave: sample
LerpWaveSample(lerp) ==
  MulQ(Q(1) - lerp.alpha, SquareWaveSample(lerp.wave1))
    + MulQ(lerp.alpha, ADSRWaveSample(lerp.wave2))

\* impl Wave for LerpWave: update_phase
LerpWaveUpdatePhase(lerp, sample_rate) ==
  [lerp EXCEPT !.wave1 = UpdatePhase(lerp.wave1, sample_rate),
               !.wave2 = ADSRWaveUpdatePhase(lerp.wave2, sample_rate)]

\* the arguments the objects are built and called with
WaveHzValues == {Q(1), Q(2), Q(3)}
WaveSampleRates == {Q(2), Q(20)}
WaveAmplitudes == {Q(1), Half}
WaveAlphas == {0, Half, Q(1)}
WaveAttacks == {0, Scale \div 10}
WaveDecays == {0, Scale \div 10}
WaveReleases == {0, Scale \div 10}

NoSample == [taken |-> FALSE]

\* a LerpWave of a SquareWave and an ADSRWave as a program builds it; out is
\* what the last sample() returned if nothing was called since, and
\* prev_phase the square's phase before the last update_phase
WavesInit ==
  \E hz \in WaveHzValues, sample_rate \in WaveSampleRates,
     amplitude \in WaveAmplitudes, alpha \in WaveAlphas,
     attack \in WaveAttacks, decay \in WaveDecays, release \in WaveReleases :
    waves = [pc          |-> "idle",
             sample_rate |-> sample_rate,
             lerp        |-> LerpWaveNew(
                               [WaveParamsNew(hz) EXCEPT !.amplitude = amplitude],
                               ADSRWaveNew(attack, decay, Scale \div 5,
                                           Half, release),
                               alpha),
             calls       |-> 0,
             prev_phase  |-> 0,
             out         |-> NoSample]

\* LerpWave::sample, with the samples of its two sources
WavesSample ==
  /\ waves.pc # "off"
  /\ waves' = [waves EXCEPT
                 !.out = [taken |-> TRUE,
                          wave1 |-> SquareWaveSample(waves.lerp.wave1),
                          wave2 |-> ADSRWaveSample(waves.lerp.wave2),
                          lerp  |-> LerpWaveSample(waves.lerp)]]
  /\ UNCHANGED <<graph, sv1, mainp, wavetypes, waveguide, freeverb, twin,
               fourier, basic>>

\* LerpWave::update_phase
WavesUpdatePhase ==
  /\ waves.pc # "off"
  /\ waves.calls < MaxCalls
  /\ waves' = [waves EXCEPT
                 !.lerp = LerpWaveUpdatePhase(waves.lerp, waves.sample_rate),
                 !.calls = @ + 1,
                 !.prev_phase = waves.lerp.wave1.phase,
                 !.out = NoSample]
  /\ UNCHANGED <<graph, sv1, mainp, wavetypes, waveguide, freeverb, twin,
               fourier, basic>>

\* LerpWave::set_alpha
WavesSetAlpha ==
  /\ waves.pc # "off"
  /\ \E alpha \in WaveAlphas :
       waves' = [waves EXCEPT !.lerp.alpha = alpha, !.out = NoSample]
  /\ UNCHANGED <<graph, sv1, mainp, wavetypes, waveguide, freeverb, twin,
               fourier, basic>>

WavesNext ==
  \/ WavesSample
  \/ WavesUpdatePhase
  \/ WavesSetAlpha

InitWaves ==
  /\ WavesInit
  /\ graph = Off
  /\ sv1 = Off
  /\ mainp = Off
  /\ wavetypes = Off
  /\ waveguide = Off
  /\ freeverb = Off
  /\ twin = Off
  /\ fourier = Off
  /\ basic = Off

SpecWaves == InitWaves /\ [][WavesNext]_vars

\* the owner of a wave calls update_phase once per frame for as long as the
\* stream runs: a call that is due is made
SpecWavesLive ==
  InitWaves /\ [][WavesNext]_vars /\ WF_vars(WavesUpdatePhase)

---------------------------------------------------------------------------
(* src/lib.rs : the oscillators basic_wave! defines over WaveParams *)

\* basic_wave!(RampWave, ...): the sample of a RampWave
RampWaveSample(wave) ==
  MulQ(wave.amplitude, 2 * (wave.phase - FloorQ(Half + wave.phase)))

\* basic_wave!(SawWave, ...): the sample of a SawWave
SawWaveSample(wave) ==
  LET t == wave.phase - Half
      s == (0 - t) - FloorQ(Half - t)
  IN IF s * 1000 < 0 - Q(499) THEN 0
     ELSE MulQ(wave.amplitude * 2, s)

\* basic_wave!(TriangleWave, ...): the sample of a TriangleWave
TriangleWaveSample(wave) ==
  LET t       == wave.phase - 3 * Quarter
      saw_amp == 2 * ((0 - t) - FloorQ(Half - t))
      abs     == IF saw_amp < 0 THEN 0 - saw_amp ELSE saw_amp
  IN 2 * abs - wave.amplitude

\* Wave::sample of the oscillator of the given type
BasicSampleOf(kind, wave) ==
  CASE kind = "SquareWave"   -> SquareWaveSample(wave)
    [] kind = "RampWave"     -> RampWaveSample(wave)
    [] kind = "SawWave"      -> SawWaveSample(wave)
    [] kind = "TriangleWave" -> TriangleWaveSample(wave)

BasicKinds == {"SquareWave", "RampWave", "SawWave", "TriangleWave"}
BasicAmplitudes == {0, Half, Q(1)}

\* $name::new(hz) of one of the four oscillators; out is what the last
\* sample() returned if nothing was called since
BasicInit ==
  \E kind \in BasicKinds, hz \in WaveHzValues, sample_rate \in WaveSampleRates :
    basic = [pc          |-> "idle",
             kind        |-> kind,
             sample_rate |-> sample_rate,
             wave        |-> WaveParamsNew(hz),
             calls       |-> 0,
             out         |-> NoSample]

\* Wave::sample
BasicSample ==
  /\ basic.pc # "off"
  /\ basic' = [basic EXCEPT
                 !.out = [taken |-> TRUE,
                          value |-> BasicSampleOf(basic.kind, basic.wave)]]
  /\ UNCHANGED <<graph, sv1, mainp, wavetypes, waveguide, waves, freeverb,
                 twin, fourier>>

\* Wave::update_phase
BasicUpdatePhase ==
  /\ basic.pc # "off"
  /\ basic.calls < MaxCalls
  /\ basic' = [basic EXCEPT
                 !.wave = UpdatePhase(basic.wave, basic.sample_rate),
                 !.calls = @ + 1,
                 !.out = NoSample]
  /\ UNCHANGED <<graph, sv1, mainp, wavetypes, waveguide, waves, freeverb,
                 twin, fourier>>

\* an owner writing the public field: wave.0.amplitude = amplitude
BasicSetAmplitude ==
  /\ basic.pc # "off"
  /\ \E amplitude \in BasicAmplitudes :
       basic' = [basic EXCEPT !.wave.amplitude = amplitude, !.out = NoSample]
  /\ UNCHANGED <<graph, sv1, mainp, wavetypes, waveguide, waves, freeverb,
                 twin, fourier>>

BasicNext ==
  \/ BasicSample
  \/ BasicUpdatePhase
  \/ BasicSetAmplitude

InitBasic ==
  /\ BasicInit
  /\ graph = Off
  /\ sv1 = Off
  /\ mainp = Off
  /\ wavetypes = Off
  /\ waveguide = Off
  /\ waves = Off
  /\ freeverb = Off
  /\ twin = Off
  /\ fourier = Off

SpecBasic == InitBasic /\ [][BasicNext]_vars

---------------------------------------------------------------------------
(* src/lib.rs : FourierWave, square_wave and triangle_wave *)

\* the largest n of the waves built with a few partials
MaxPartials == 4

\* u32 values are held as base-2^16 digits, the most significant first; a
\* fraction is a numerator over such a denominator
Digit == 2^16

\* the digits of x
Digits(x) == <<0, x \div Digit, x % Digit>>

\* the digits of i * i in full, for i < 2^17
SquareDigits(i) ==
  LET h   == i \div Digit
      l   == i % Digit
      l1  == l \div 256
      l0  == l % 256
      low == 2 * l1 * l0 * 256 + l0 * l0
      mid == 2 * h * l + l1 * l1 + low \div Digit
  IN <<h * h + mid \div Digit, mid % Digit, low % Digit>>

\* (i * i) on u32: the product modulo 2^32, and whether it overflowed
SquareU32(i) ==
  [value    |-> <<0, SquareDigits(i)[2], SquareDigits(i)[3]>>,
   overflow |-> SquareDigits(i)[1] # 0]

Fraction(num, den) == [num |-> num, den |-> den]

\* 0.
ZeroCoefficient == Fraction(0, Digits(1))

\* square_wave: the body of `for i in 0..=n`
SquareCoefficient(i) ==
  IF i % 2 = 1 THEN Fraction(1, Digits(i)) ELSE ZeroCoefficient

\* triangle_wave: the body of `for i in 0..=n`
TriangleCoefficient(i) ==
  IF i % 2 = 1
  THEN LET sgn == IF i % 4 = 1 THEN 0 - 1 ELSE 1
       IN Fraction(sgn, SquareU32(i).value)
  ELSE ZeroCoefficient

\* triangle_wave in a build with overflow checks: i * i panics
TrianglePanics(n, build) ==
  /\ build = "debug"
  /\ \E i \in 0..n : i % 2 = 1 /\ SquareU32(i).overflow

\* FourierWave::new
FourierWaveNew(coefficients, hz) ==
  [base_hz |-> hz,
   volume  |-> Q(1),
   sines   |-> [n \in 1..Len(coefficients) |->
                  [hz        |-> hz * (n - 1),
                   amplitude |-> coefficients[n],
                   phase     |-> 0]]]

\* FourierWave::set_hz
FourierSetHz(wave, hz) ==
  [wave EXCEPT !.base_hz = hz,
               !.sines = [n \in 1..Len(wave.sines) |->
                            [wave.sines[n] EXCEPT !.hz = hz * (n - 1)]]]

\* FourierWave::set_volume
FourierSetVolume(wave, volume) == [wave EXCEPT !.volume = volume]

\* square_wave(n, hz)
SquareWaveOf(n, hz) ==
  FourierWaveNew([k \in 1..(n + 1) |-> SquareCoefficient(k - 1)], hz)

\* triangle_wave(n, hz)
TriangleWaveOf(n, hz) ==
  FourierWaveNew([k \in 1..(n + 1) |-> TriangleCoefficient(k - 1)], hz)

\* the least odd i whose square does not fit a u32
FirstOverflow == Digit + 1

FourierKinds == {"square_wave", "triangle_wave"}
FourierSizes == (0..MaxPartials) \cup {FirstOverflow}
FourierHzValues == {Q(1), Q(2)}
FourierVolumes == {0, Half, Q(1)}
Builds == {"debug", "release"}

\* square_wave(n, hz) or triangle_wave(n, hz), in a build with or without
\* overflow checks
FourierInit ==
  \E kind \in FourierKinds, n \in FourierSizes, hz \in FourierHzValues,
     build \in Builds :
    fourier =
      IF kind = "triangle_wave" /\ TrianglePanics(n, build)
      THEN [pc |-> "panicked", kind |-> kind, n |-> n, build |-> build,
            wave |-> FourierWaveNew(<<>>, hz)]
      ELSE [pc |-> "built", kind |-> kind, n |-> n, build |-> build,
            wave |-> IF kind = "square_wave" THEN SquareWaveOf(n, hz)
                     ELSE TriangleWaveOf(n, hz)]

\* FourierWave::set_hz
FourierWaveSetHz ==
  /\ fourier.pc = "built"
  /\ \E hz \in FourierHzValues :
       fourier' = [fourier EXCEPT !.wave = FourierSetHz(@, hz)]
  /\ UNCHANGED <<graph, sv1, mainp, wavetypes, waveguide, waves, freeverb,
                 twin, basic>>

\* FourierWave::set_volume
FourierWaveSetVolume ==
  /\ fourier.pc = "built"
  /\ \E volume \in FourierVolumes :
       fourier' = [fourier EXCEPT !.wave = FourierSetVolume(@, volume)]
  /\ UNCHANGED <<graph, sv1, mainp, wavetypes, waveguide, waves, freeverb,
                 twin, basic>>

FourierNext ==
  \/ FourierWaveSetHz
  \/ FourierWaveSetVolume

InitFourier ==
  /\ FourierInit
  /\ graph = Off
  /\ sv1 = Off
  /\ mainp = Off
  /\ wavetypes = Off
  /\ waveguide = Off
  /\ waves = Off
  /\ freeverb = Off
  /\ twin = Off
  /\ basic = Off

SpecFourier == InitFourier /\ [][FourierNext]_vars

---------------------------------------------------------------------------
(* examples/graph.rs : two copies of one Graph, each given the same sequence
   of closures and Graph::play calls *)

\* closures and play calls given to the two copies in one run
MaxScript == 5

\* the graph fn model builds
ExampleGraph ==
  <<NewSineOscG(Constant(Q(220))),
    NewSquareOscG(Constant(Q(220))),
    NewOsc01(Constant(Q(1))),
    [NewLerpG(0, 1) EXCEPT !.alpha = Variable(2)]>>

\* the two oscillators interpolated by a LerpG as LerpG::new leaves it, which
\* the Alpha closure finds at position 2
LerpGraph ==
  <<NewSineOscG(Constant(Q(220))),
    NewSquareOscG(Constant(Q(220))),
    NewLerpG(0, 1)>>

TwinGraphs == {ExampleGraph, LerpGraph}

PlayItem == [op |-> "play", arg |-> 0]

\* what the audio thread does to a graph: a closure of update() or a play
TwinItems == {PlayItem, NoteOnCmd(33), AlphaCmd(0)}

\* Graph::new for one copy: its own nodes, how much of the script it has
\* run, the samples its plays returned, and the outputs before and the
\* results of its last play
TwinCopy(nodes) ==
  [nodes  |-> nodes,
   done   |-> 0,
   outs   |-> <<>>,
   played |-> FALSE,
   log    |-> [pre |-> <<>>, outs |-> <<>>]]

\* two graphs built over the same Arc'd modules: both copies evaluate the
\* modules of the first
TwinModulesShared(tw, c) == tw.copies[1].nodes

\* the modules of copy c: Graph::new is given a fresh arc(...) per node, so
\* each copy owns its modules
TwinModules(tw, c) == tw.copies[c].nodes

\* copy c runs the next item of the script
TwinStep(tw, c) ==
  LET copy  == tw.copies[c]
      item  == tw.script[copy.done + 1]
      nodes == TwinModules(tw, c)
  IN IF item.op = "play"
     THEN LET p == Play(nodes, tw.sample_rate)
          IN [copy EXCEPT
                !.nodes  = p.nodes,
                !.done   = @ + 1,
                !.outs   = Append(@, p.ret),
                !.played = TRUE,
                !.log    = [pre  |-> [i \in 1..Len(nodes) |-> nodes[i].output],
                            outs |-> p.outs]]
     ELSE [copy EXCEPT !.nodes  = ApplyGraphCmd(nodes, item),
                       !.done   = @ + 1,
                       !.played = FALSE]

TwinInit ==
  \E nodes \in TwinGraphs, sample_rate \in SampleRates :
    twin = [pc          |-> "idle",
            sample_rate |-> sample_rate,
            script      |-> <<>>,
            copies      |-> <<TwinCopy(nodes), TwinCopy(nodes)>>]

\* the next closure or play call is decided
TwinCommand ==
  /\ twin.pc # "off"
  /\ Len(twin.script) < MaxScript
  /\ \E item \in TwinItems : twin' = [twin EXCEPT !.script = Append(@, item)]
  /\ UNCHANGED <<graph, sv1, mainp, wavetypes, waveguide, waves, freeverb,
               fourier, basic>>

\* one of the copies runs its next item
TwinRun ==
  /\ twin.pc # "off"
  /\ \E c \in 1..2 :
       /\ twin.copies[c].done < Len(twin.script)
       /\ twin' = [twin EXCEPT !.copies[c] = TwinStep(twin, c)]
  /\ UNCHANGED <<graph, sv1, mainp, wavetypes, waveguide, waves, freeverb,
               fourier, basic>>

TwinNext ==
  \/ TwinCommand
  \/ TwinRun

InitTwin ==
  /\ TwinInit
  /\ graph = Off
  /\ sv1 = Off
  /\ mainp = Off
  /\ wavetypes = Off
  /\ waveguide = Off
  /\ waves = Off
  /\ freeverb = Off
  /\ fourier = Off
  /\ basic = Off

SpecTwin == InitTwin /\ [][TwinNext]_vars

---------------------------------------------------------------------------
(* The oscillators and interpolators of src/lib.rs and examples/graph.rs:
   a LerpWave, the example application or a pair of graphs is started *)

InitOsc ==
  \/ InitWaves
  \/ InitGraph
  \/ InitTwin

OscNext ==
  \/ WavesNext
  \/ GraphNext
  \/ TwinNext

SpecOsc == InitOsc /\ [][OscNext]_vars

---------------------------------------------------------------------------
(* Claims about examples/graph.rs *)

GraphPlayed == graph.pc # "off" /\ graph.log.calls # <<>>

\* C1: every Graph::play calls signal() on each node once, in vector order,
\* leaves in each node's cached output the value its signal() returned in
\* that call, and returns the cached output of the last node.
C1_PlayEvaluatesEveryNodeOnce ==
  GraphPlayed =>
    /\ graph.log.calls = [i \in 1..Len(graph.nodes) |-> i - 1]
    /\ \A i \in 1..Len(graph.nodes) : graph.nodes[i].output = graph.log.outs[i]
    /\ graph.log.ret = Last(graph.nodes).output
    /\ graph.buffer # <<>> => Last(graph.buffer).amp = graph.log.ret

\* a play whose last node returned a sample other than 0
C1_Witness == GraphPlayed /\ Last(graph.log.outs) # 0

\* C2: in one play a node that reads an earlier node reads the value that
\* node returned in the same play.
C2_ReadsSameSample ==
  GraphPlayed =>
    \A j \in 1..Len(graph.nodes) :
      \A r \in graph.log.reads[j] :
        r[1] + 1 < j => r[2] = graph.log.outs[r[1] + 1]

\* C8: a closure whose downcast fails changes no field of any node, and the
\* graph is evaluated as usual afterwards.
C8_FailedDowncastIsDropped ==
  (graph.pc # "off" /\ graph.cmd_log.missed) =>
    /\ ~graph.cmd_log.changed
    /\ graph.buffer # <<>> => Len(graph.log.calls) = Len(graph.nodes)

\* the Alpha closure has missed its node and a frame was rendered after it
C8_Witness ==
  /\ graph.pc = "idle"
  /\ graph.cmd_log.cmd.op = "alpha"
  /\ graph.cmd_log.missed
  /\ graph.buffer # <<>>

---------------------------------------------------------------------------
(* Claims about src/bin/sv1.rs *)

\* C3: in the vector build_synth hands to Rack::new every node named by a
\* binding of a node stands at a strictly earlier position than that node.
C3_InputsPrecede ==
  sv1.pc # "off" =>
    \A i \in 1..Len(Sv1Rack) :
      \A name \in Sv1Rack[i].inputs : PositionOf(Sv1Rack, name) < i

\* the fields a MIDI message writes, each with the value it writes
Sv1Writes(message) ==
  IF Len(message) # 3 THEN {}
  ELSE IF message[1] = 144
       THEN {<<<<"step", 0>>, message[2]>>, <<<<"gate", 0>>, 1>>}
  ELSE IF message[1] = 128
       THEN {<<<<"gate", 0>>, 0>>}
  ELSE IF message[1] = 176
       THEN {<<<<"control", i>>, message[3]>> :
               i \in {j \in 1..Len(Sv1Controls) :
                        Sv1Controls[j].controller = message[2]}}
  ELSE {}

Sv1Fields ==
  {<<"step", 0>>, <<"gate", 0>>} \cup {<<"control", i>> : i \in 1..Len(Sv1Controls)}

Sv1FieldValue(f) ==
  IF f[1] = "step" THEN sv1.step
  ELSE IF f[1] = "gate" THEN (IF sv1.gate THEN 1 ELSE 0)
  ELSE sv1.controls[f[2]].value

\* the messages the drain of the callback applied, in the order it applied
\* them
LastDrain == sv1.applied

Sv1Writers(f) ==
  {i \in 1..Len(LastDrain) : \E w \in Sv1Writes(LastDrain[i].bytes) : w[1] = f}

Sv1Written(e, f) == (CHOOSE w \in Sv1Writes(e.bytes) : w[1] = f)[2]

Sv1Drained == sv1.pc = "render"

\* C5 as claimed: after a drain every field written in it holds the value of
\* the message enqueued last among those that wrote it, whichever channels
\* the messages came through.
C5_LastEnqueuedWins ==
  Sv1Drained =>
    \A f \in Sv1Fields :
      Sv1Writers(f) # {} =>
        LET last == CHOOSE i \in Sv1Writers(f) :
                      \A j \in Sv1Writers(f) : LastDrain[j].id <= LastDrain[i].id
        IN Sv1FieldValue(f) = Sv1Written(LastDrain[last], f)

\* the message of a drain that is applied after all the others that write f:
\* the newest of midi_receiver2 if there is one, else the newest of
\* midi_receiver1
Sv1Later(a, b) == a.chan > b.chan \/ (a.chan = b.chan /\ a.id > b.id)

\* C5 as amended: a drain applies the messages of midi_receiver1 in their
\* enqueue order and then those of midi_receiver2 in theirs, so a field holds
\* the value of the newest message written to it on midi_receiver2, or on
\* midi_receiver1 when none came through midi_receiver2.
C5_ChannelOrderWins ==
  Sv1Drained =>
    /\ \A i, j \in 1..Len(LastDrain) :
         i < j => Sv1Later(LastDrain[j], LastDrain[i])
    /\ \A f \in Sv1Fields :
         Sv1Writers(f) # {} =>
           LET last == CHOOSE i \in Sv1Writers(f) :
                         \A j \in Sv1Writers(f) \ {i} :
                           Sv1Later(LastDrain[i], LastDrain[j])
           IN Sv1FieldValue(f) = Sv1Written(LastDrain[last], f)

\* one drain has applied two messages that write different values to one
\* field, one from each receiver
C5_Witness ==
  /\ Sv1Drained
  /\ \E f \in Sv1Fields :
       \E i, j \in Sv1Writers(f) :
         /\ LastDrain[i].chan # LastDrain[j].chan
         /\ Sv1Written(LastDrain[i], f) # Sv1Written(LastDrain[j], f)

\* C6: the messages pending when the callback starts are applied before its
\* first frame, none is applied after a frame of the same buffer, and one
\* enqueued while a buffer is rendered is applied by the drain of the next.
C6_DrainOnlyAtBufferStart ==
  sv1.pc # "off" =>
    /\ \A i \in 1..Len(sv1.applied) : sv1.applied[i].frames_done = 0
    /\ sv1.buffer # <<>> => sv1.start_pending \subseteq IdsOf(sv1.applied)
    /\ \A i \in 1..Len(sv1.applied) :
         sv1.applied[i].late > 0 =>
           sv1.applied[i].app_buf = sv1.applied[i].late + 1
    /\ \A e \in {sv1.ch1[i] : i \in 1..Len(sv1.ch1)}
                  \cup {sv1.ch2[i] : i \in 1..Len(sv1.ch2)} :
         e.late > 0 =>
           ~(sv1.buffers > e.late /\ sv1.pc = "render")

\* a message that arrived between two frames of a buffer has been applied by
\* the next callback, which has rendered a frame since
C6_Witness ==
  /\ sv1.pc # "off"
  /\ sv1.buffer # <<>>
  /\ \E i \in 1..Len(sv1.applied) :
       /\ sv1.applied[i].late > 0
       /\ sv1.applied[i].app_buf = sv1.buffers
       /\ Len(sv1.applied[i].bytes) = 3

---------------------------------------------------------------------------
(* Claims about the MIDI handlers and render callbacks of the applications *)

\* C7. A MIDI message whose length is not 3 is ignored by every MIDI handler
\* (sv1's audio, graph.rs's update, main.rs's update): it changes no node
\* field and no model field, enqueues no command, and raises no panic.
C7_OtherLengthsIgnored ==
  /\ sv1.pc # "off" =>
       \A m \in Sv1Messages : Len(m) # 3 => Sv1ApplyMessage(sv1, m) = sv1
  /\ graph.pc # "off" =>
       \A m \in GraphMessages : Len(m) # 3 => GraphMidiCmds(<<m>>) = <<>>
  /\ mainp.pc # "off" =>
       \A i \in 1..Len(mainp.upd_log) :
         LET e == mainp.upd_log[i]
         IN Len(e.bytes) # 3 =>
              /\ e.hz_after = e.hz_before
              /\ e.sent = 0
              /\ ~e.panicked

\* the frames of the buffer being rendered, the samples rendered so far and
\* the samples the scope channel was given: app is the state of one
\* application, scope what its scope channel holds
FramesAsRendered(app, scope) ==
  app.pc # "off" =>
    /\ \A i \in 1..Len(app.buffer) :
         LET f == app.buffer[i]
         IN /\ f.plays = 1
            /\ \A c \in 1..NumChannels : f.channels[c] = f.amp
            /\ f.sent = <<f.amp>>
            /\ app.rendered[Len(app.rendered) - Len(app.buffer) + i] = f.amp
    /\ app.received \o scope = app.rendered

\* C10. For every frame of every buffer the render callback evaluates the
\* graph exactly once, writes that value to every channel of the frame and
\* sends exactly one copy to the visualization channel, which so receives the
\* rendered samples in frame order, none missing and none twice.
C10_OneSamplePerFrame ==
  /\ FramesAsRendered(graph, IF graph.pc = "off" THEN <<>> ELSE graph.viz_q)
  /\ FramesAsRendered(sv1, IF sv1.pc = "off" THEN <<>> ELSE sv1.scope_q)
  /\ FramesAsRendered(mainp, IF mainp.pc = "off" THEN <<>> ELSE mainp.viz_q)

\* graph.rs has rendered two buffers of two frames or more, and update took
\* the samples of the first from the channel before the second was rendered
C10_Witness ==
  /\ graph.pc # "off"
  /\ Len(graph.buffer) >= 2
  /\ Len(graph.rendered) > Len(graph.buffer)
  /\ graph.received # <<>>
  /\ graph.viz_q # <<>>

---------------------------------------------------------------------------
(* Claims about oscen-lib/src/instruments.rs *)

WGPosition(name) ==
  CHOOSE i \in 1..Len(waveguide.rack) : waveguide.rack[i].name = name

\* C4. In the WaveGuide's private rack the only reference from a node to a
\* node at the same or a later position is the Delay's reference to the
\* mixer; every other input read during a sample was computed in that sample.
C4_OnlyDelayReadsLater ==
  waveguide.pc # "off" =>
    /\ \A i, j \in 1..Len(waveguide.rack) :
         (waveguide.rack[j].tag \in waveguide.rack[i].inputs /\ j >= i) =>
           (i = WGPosition("delay") /\ j = WGPosition("mixer"))
    /\ \A r \in waveguide.reads :
         ~(r.reader = "delay" /\ r.input = "mixer") => r.stamp = r.sample

\* the tags the outer IdGen had handed out before WaveGuide::new took the
\* WaveGuide's own
WGOuterTags == 0..(waveguide.tag - 1)

\* C17. No two nodes of a process carry the same tag, the nodes of a
\* composite's private rack compared with those of the outer rack included.
C17_TagsUnique ==
  waveguide.pc # "off" =>
    /\ \A i, j \in 1..Len(waveguide.rack) :
         i # j => waveguide.rack[i].tag # waveguide.rack[j].tag
    /\ \A i \in 1..Len(waveguide.rack) :
         waveguide.rack[i].tag \notin WGOuterTags \cup {waveguide.tag}

---------------------------------------------------------------------------
(* Claims about examples/wavetypes.rs *)

\* C9. No thread other than the audio thread ever locks (reads or writes)
\* the state of a node of the synth's voice; the UI/key handler and the MIDI
\* threads reach node state only through commands the audio thread applies.
C9_OnlyAudioTouchesNodes ==
  wavetypes.pc # "off" =>
    \A t \in wavetypes.touched : t.thread = "audio"

---------------------------------------------------------------------------
(* Claims about the oscillators, the envelope and the interpolators of
   src/lib.rs and examples/graph.rs *)

\* the last Graph::play is the last thing that touched the nodes
GraphJustPlayed == GraphPlayed /\ graph.pc \in {"render", "idle"}

\* the value an Input of a node had in the last play
AtPlay(in) == IF in.var THEN graph.log.pre[in.v + 1] ELSE in.v

\* C11. A 2-way interpolation outputs (1-alpha)*wave1 + alpha*wave2: wave1's
\* sample at alpha = 0 and wave2's at alpha = 1, in LerpWave::sample and in
\* LerpG::signal alike.
C11_LerpFromWave1ToWave2 ==
  /\ (waves.pc # "off" /\ waves.out.taken) =>
       LET alpha == waves.lerp.alpha
       IN /\ waves.out.lerp = MulQ(Q(1) - alpha, waves.out.wave1)
                                + MulQ(alpha, waves.out.wave2)
          /\ alpha = 0 => waves.out.lerp = waves.out.wave1
          /\ alpha = Q(1) => waves.out.lerp = waves.out.wave2
  /\ GraphJustPlayed =>
       \A i \in 1..Len(graph.nodes) :
         graph.nodes[i].kind = "LerpG" =>
           LET alpha == AtPlay(graph.nodes[i].alpha)
               wave1 == graph.log.pre[graph.nodes[i].wave1 + 1]
               wave2 == graph.log.pre[graph.nodes[i].wave2 + 1]
           IN /\ graph.log.outs[i] = MulQ(Q(1) - alpha, wave1) + MulQ(alpha, wave2)
              /\ alpha = 0 => graph.log.outs[i] = wave1
              /\ alpha = Q(1) => graph.log.outs[i] = wave2
  /\ twin.pc # "off" =>
       \A c \in 1..2 :
         twin.copies[c].played =>
           \A i \in 1..Len(twin.copies[c].nodes) :
             twin.copies[c].nodes[i].kind = "LerpG" =>
               LET node  == twin.copies[c].nodes[i]
                   log   == twin.copies[c].log
                   alpha == IF node.alpha.var THEN log.pre[node.alpha.v + 1]
                            ELSE node.alpha.v
                   wave1 == log.pre[node.wave1 + 1]
                   wave2 == log.pre[node.wave2 + 1]
               IN /\ log.outs[i] = MulQ(Q(1) - alpha, wave1) + MulQ(alpha, wave2)
                  /\ alpha = 0 => log.outs[i] = wave1
                  /\ alpha = Q(1) => log.outs[i] = wave2

\* the envelope of the example has just been sampled
AdsrExample ==
  /\ waves.pc # "off"
  /\ waves.out.taken
  /\ waves.lerp.wave2.attack = Scale \div 10
  /\ waves.lerp.wave2.decay = Scale \div 10
  /\ waves.lerp.wave2.sustain_time = Scale \div 5
  /\ waves.lerp.wave2.sustain_level = Half
  /\ waves.lerp.wave2.release = Scale \div 10

\* C12 as claimed: with attack 0.1, decay 0.1, sustain_time 0.2,
\* sustain_level 0.5 and release 0.1, adsr is 0.5 at t = 0.05, strictly
\* between 0.5 and 1 at t = 0.15, 0.5 at t = 0.3 and 0 at t = 0.45.
C12_AdsrZeroAt045 ==
  AdsrExample =>
    LET t == waves.lerp.wave2.current_time
        v == waves.out.wave2
    IN /\ t = 500 => v = Half
       /\ t = 1500 => (Half < v /\ v < Q(1))
       /\ t = 3000 => v = Half
       /\ t = 4500 => v = 0

\* C12 as amended: the release runs from t = 0.4 to t = 0.5, so adsr is 0.5
\* at t = 0.05, 0.75 at t = 0.15, 0.5 at t = 0.3, 0.25 at t = 0.45, and 0
\* from t = 0.5 on.
C12_AdsrQuarterAt045 ==
  AdsrExample =>
    LET t == waves.lerp.wave2.current_time
        v == waves.out.wave2
    IN /\ t = 500 => v = Half
       /\ t = 1500 => v = 3 * Quarter
       /\ t = 3000 => v = Half
       /\ t = 4500 => v = Quarter
       /\ t >= 5000 => v = 0

\* the envelope of the example sampled at t = 0.45
C12_Witness == AdsrExample /\ waves.lerp.wave2.current_time = 4500

\* C13. Every envelope duration an object holds is strictly positive: a
\* requested duration of 0 is clamped where it is assigned.
C13_DurationsPositive ==
  waves.pc # "off" =>
    /\ waves.lerp.wave2.attack > 0
    /\ waves.lerp.wave2.decay > 0
    /\ waves.lerp.wave2.release > 0

\* C19. A phase update sets the phase to (phase + hz/sample_rate) reduced
\* modulo sample_rate: the phase grows by exactly hz/sample_rate while that
\* stays below sample_rate, and 0 <= phase < sample_rate after every call.
\* grown is the phase before the call plus hz/sample_rate.
PhaseWrapsAtSampleRate(phase, grown, sample_rate) ==
  /\ 0 <= phase
  /\ phase < sample_rate
  /\ grown < sample_rate => phase = grown
  /\ (grown - phase) % sample_rate = 0

C19_PhaseModuloSampleRate ==
  /\ (waves.pc # "off" /\ waves.calls > 0) =>
       PhaseWrapsAtSampleRate(
         waves.lerp.wave1.phase,
         waves.prev_phase + DivQ(waves.lerp.wave1.hz, waves.sample_rate),
         waves.sample_rate)
  /\ GraphJustPlayed =>
       \A i \in 1..Len(graph.nodes) :
         (graph.nodes[i].kind \in {"SineOscG", "Osc01", "SquareOscG"}
            /\ ~graph.nodes[i].phase.var) =>
           PhaseWrapsAtSampleRate(
             graph.nodes[i].phase.v,
             graph.log.phases[i].v
               + DivQ(AtPlay(graph.nodes[i].hz), graph.sample_rate),
             graph.sample_rate)

\* a phase that had grown past 1 has wrapped at the sample rate
C19_Witness ==
  /\ waves.pc # "off"
  /\ waves.calls > 0
  /\ waves.prev_phase > Q(1)
  /\ waves.lerp.wave1.phase < waves.prev_phase

\* the square wave as a function of the fractional part t of the phase
SquareOf(t, amplitude, duty_cycle) ==
  IF t < Scale \div 1000 THEN 0
  ELSE IF t <= duty_cycle THEN amplitude
  ELSE 0 - amplitude

\* C20. The sample of a square oscillator depends only on the fractional
\* part t of its phase: 0 for t < 0.001, +amplitude for 0.001 <= t <=
\* duty_cycle and -amplitude beyond; with the duty cycle 0.5 it is +amplitude
\* at t = 0.3 and -amplitude at t = 0.7.
C20_SquareOfFraction ==
  /\ (waves.pc # "off" /\ waves.out.taken) =>
       LET wave == waves.lerp.wave1
           t    == wave.phase % Scale
       IN /\ waves.out.wave1 = SquareOf(t, wave.amplitude, Half)
          /\ t = 3000 => waves.out.wave1 = wave.amplitude
          /\ t = 7000 => waves.out.wave1 = 0 - wave.amplitude
  /\ GraphJustPlayed =>
       \A i \in 1..Len(graph.nodes) :
         graph.nodes[i].kind = "SquareOscG" =>
           graph.log.outs[i] =
             SquareOf(AtPlay(graph.log.phases[i]) % Scale,
                      AtPlay(graph.nodes[i].amplitude),
                      graph.nodes[i].duty_cycle)

\* a square wave sampled at t = 0.7
C20_Witness ==
  /\ waves.pc # "off"
  /\ waves.out.taken
  /\ waves.lerp.wave1.phase % Scale = 7000

---------------------------------------------------------------------------
(* Claims about two copies of one graph *)

IsPrefix(s, t) == Len(s) <= Len(t) /\ s = SubSeq(t, 1, Len(s))

---------------------------------------------------------------------------
(* Claims about src/reverb.rs *)

FvCombs == {i \in 1..Len(freeverb.rack) : freeverb.rack[i].kind = "Comb"}

\* C14. In every state of a Freeverb, the freshly built one included,
\* wet_gain = wet * (width/2 + 0.5), and the sample signal() returns is
\* wet_gain * (private rack output) + dry * input.
C14_WetGainFollowsWetAndWidth ==
  freeverb.pc # "off" =>
    /\ freeverb.wet_gain = MulQ(freeverb.wet, DivQ(freeverb.width, Q(2)) + Half)
    /\ freeverb.out.taken =>
         freeverb.out.value = MulQ(freeverb.wet_gain, freeverb.out.rack_out)
                                + MulQ(freeverb.dry, freeverb.out.inp)

\* C15. Whenever frozen is true, whichever of set_freeze and set_frozen set
\* it, every comb has feedback 1 and damping 0 and input_gain is 0.
C15_FrozenMutesInput ==
  (freeverb.pc # "off" /\ freeverb.frozen) =>
    /\ \A i \in FvCombs :
         freeverb.rack[i].feedback = Q(1) /\ freeverb.rack[i].damping = 0
    /\ freeverb.input_gain = 0

\* C16. After a call of set_room_size, set_dampening, set_freeze or
\* set_frozen all 8 combs hold the same feedback and damping: (1, 0) if
\* frozen, else (room_size, dampening), which are 0.28 * value + 0.7 and
\* 0.4 * value of the last arguments of their setters (0.5 while a setter
\* was never called).
C16_CombsUniform ==
  (freeverb.pc # "off" /\ freeverb.combs_set) =>
    /\ Cardinality(FvCombs) = 8
    /\ freeverb.room_size =
         IF freeverb.last_room = Unset THEN Half
         ELSE MulQ(freeverb.last_room, 2800) + 7000
    /\ freeverb.dampening =
         IF freeverb.last_damp = Unset THEN Half
         ELSE MulQ(freeverb.last_damp, 4000)
    /\ \A i \in FvCombs :
         /\ freeverb.rack[i].feedback =
              IF freeverb.frozen THEN Q(1) ELSE freeverb.room_size
         /\ freeverb.rack[i].damping =
              IF freeverb.frozen THEN 0 ELSE freeverb.dampening

\* an unfrozen Freeverb whose room size and damping were both set
C16_Witness ==
  /\ freeverb.pc # "off"
  /\ freeverb.combs_set
  /\ ~freeverb.frozen
  /\ freeverb.last_room = Q(1)
  /\ freeverb.last_damp = Half
  /\ freeverb.out.taken

---------------------------------------------------------------------------
(* Claims about the oscillators and the FourierWave of src/lib.rs *)

\* C21. square_wave(n, hz) and triangle_wave(n, hz) build a FourierWave of
\* n + 1 sine partials; partial i has frequency i * hz, phase 0 and the
\* amplitude 0 for even i, and for odd i 1/i (square) or sgn/(i*i)
\* (triangle), sgn being -1 when i mod 4 = 1 and +1 when i mod 4 = 3.
C21_FourierPartials ==
  fourier.pc # "off" =>
    /\ fourier.pc = "built"
    /\ Len(fourier.wave.sines) = fourier.n + 1
    /\ \A i \in 0..fourier.n :
         LET sine == fourier.wave.sines[i + 1]
             sgn  == IF i % 4 = 1 THEN 0 - 1 ELSE 1
         IN /\ sine.hz = i * fourier.wave.base_hz
            /\ sine.phase = 0
            /\ sine.amplitude =
                 IF i % 2 = 0 THEN ZeroCoefficient
                 ELSE IF fourier.kind = "square_wave"
                      THEN Fraction(1, Digits(i))
                      ELSE Fraction(sgn, SquareDigits(i))

\* C29. The samples of the square, ramp, saw and triangle oscillators of
\* lib.rs lie within [-amplitude, +amplitude] at every phase, for every
\* amplitude >= 0; with amplitude 0 the sample is 0 at every phase.
C29_SampleWithinAmplitude ==
  (basic.pc # "off" /\ basic.out.taken) =>
    /\ basic.out.value <= basic.wave.amplitude
    /\ 0 - basic.wave.amplitude <= basic.out.value
    /\ basic.wave.amplitude = 0 => basic.out.value = 0

---------------------------------------------------------------------------
(* Claims about the envelope of src/lib.rs *)

\* the time at which the envelope of the LerpWave has run out
EnvelopeEnd ==
  waves.lerp.wave2.attack + waves.lerp.wave2.decay
    + waves.lerp.wave2.sustain_time + waves.lerp.wave2.release

\* C24. An ADSRWave with finite durations, advanced by update_phase again
\* and again, comes to sample 0 and stays there: sample() is 0 whenever
\* current_time >= attack + decay + sustain_time + release, and
\* current_time never decreases (each call adds 1/sample_rate, nothing
\* resets it).
C24_EnvelopeRunsOut ==
  /\ [][waves.pc # "off" =>
          /\ waves'.lerp.wave2.current_time >= waves.lerp.wave2.current_time
          /\ waves'.lerp.wave2.current_time - waves.lerp.wave2.current_time
               \in {0, DivQ(Q(1), waves.sample_rate)}]_vars
  /\ [](waves.pc # "off" =>
          (waves.lerp.wave2.current_time >= EnvelopeEnd
             => ADSRWaveSample(waves.lerp.wave2) = 0))
  /\ <>[](waves.pc # "off" => ADSRWaveSample(waves.lerp.wave2) = 0)

\* an envelope with an attack and a release sampled after it has run out
C24_Witness ==
  /\ waves.pc # "off"
  /\ waves.out.taken
  /\ waves.lerp.wave2.attack > 0
  /\ waves.lerp.wave2.release > 0
  /\ waves.lerp.wave2.current_time > EnvelopeEnd
  /\ waves.out.wave2 = 0

\* C30. adsr never divides by zero, for t >= 0 and non-negative durations,
\* zero durations included: the guards are strict, so the arm of a zero
\* duration is never selected; and sample() is never evaluated with t < 0.
C30_NoDivisionByZero ==
  waves.pc # "off" =>
    LET wave == waves.lerp.wave2
        t    == wave.current_time
        arm  == AdsrArm(wave, t)
    IN /\ t >= 0
       /\ AdsrDivisor(wave, t) # 0
       /\ arm = "attack" => wave.attack > 0
       /\ arm = "decay" => wave.decay > 0
       /\ arm = "release" => wave.release > 0
       /\ waves.out.taken =>
            /\ arm = "attack" => waves.out.wave2 = DivQ(t, wave.attack)
            /\ arm = "sustain" => waves.out.wave2 = wave.sustain_level
            /\ arm = "end" => waves.out.wave2 = 0

\* an envelope without attack, decay and release sampled in its sustain
C30_Witness ==
  /\ waves.pc # "off"
  /\ waves.out.taken
  /\ waves.lerp.wave2.attack = 0
  /\ waves.lerp.wave2.decay = 0
  /\ waves.lerp.wave2.release = 0
  /\ waves.lerp.wave2.current_time > 0
  /\ waves.out.wave2 = Half

---------------------------------------------------------------------------
(* Claims about the commands of the examples *)

\* C22. The four amplitudes the mix command assigns are finite and
\* non-negative and sum to 1 (to the rounding of the division), for every
\* combination of the toggles, all four off included.
C22_MixLevelsSumToOne ==
  wavetypes.pc # "off" =>
    /\ \A n \in 1..4 :
         /\ wavetypes.voice.amplitude[n] # NaN
         /\ wavetypes.voice.amplitude[n] >= 0
    /\ Q(1) - SumSeq(wavetypes.voice.amplitude) \in 0..3

\* C27. Once every queued command has been applied, wave2 stands
\* transposed by the same number of semitones as wave1, wave3 and the
\* carrier of wave4, however many Up and Down presses came between two
\* drains.
C27_Wave2FollowsTranspose ==
  (wavetypes.pc # "off" /\ wavetypes.stream_q = <<>>
     /\ wavetypes.pending = <<>>) =>
    \A n \in 1..4 : wavetypes.voice.hz[n] = wavetypes.voice.hz[2]

\* C25. After the command of the Alpha slider has been applied on the audio
\* thread, the alpha binding of the LerpG node, the last node of the voice,
\* is Constant(value).
C25_AlphaReachesLerp ==
  (graph.pc # "off" /\ graph.cmd_log.cmd.op = "alpha") =>
    /\ Last(graph.nodes).kind = "LerpG"
    /\ Last(graph.nodes).alpha = Constant(graph.cmd_log.cmd.arg)

\* the 3-byte messages: those the listeners deliver, a control change for a
\* controller no control has, and a pitch-bend message
ThreeByteMessages ==
  {m \in Sv1Messages : Len(m) = 3} \cup {<<176, 99, 5>>, <<224, 0, 64>>}

\* C23. A 3-byte message changes only what its status byte designates: 144
\* sets the step to data1 and opens the gate, 128 only closes the gate, 176
\* sets the value of exactly the controls whose controller is data1 to
\* data2, and any other status changes nothing.
C23_StatusSelectsEffect ==
  sv1.pc # "off" =>
    \A m \in ThreeByteMessages :
      LET after == Sv1ApplyMessage(sv1, m)
      IN CASE m[1] = 144 -> after = [sv1 EXCEPT !.step = m[2], !.gate = TRUE]
           [] m[1] = 128 -> after = [sv1 EXCEPT !.gate = FALSE]
           [] m[1] = 176 ->
                after = [sv1 EXCEPT !.controls =
                           [i \in 1..Len(sv1.controls) |->
                              IF sv1.controls[i].controller = m[2]
                              THEN [sv1.controls[i] EXCEPT !.value = m[3]]
                              ELSE sv1.controls[i]]]
           [] OTHER -> after = sv1

\* a control change has been applied: control 32 holds its value
C23_Witness ==
  /\ sv1.pc # "off"
  /\ \E i \in 1..Len(sv1.applied) : sv1.applied[i].bytes = <<176, 32, 10>>
  /\ sv1.controls[1].value = 10
  /\ sv1.controls[2].value = 0

---------------------------------------------------------------------------
(* Claims about freezing the Freeverb *)

\* C26. While the reverb is frozen the sample fed into the private rack is
\* 0: signal() scales the incoming sample by input_gain.
C26_FrozenFeedsSilence ==
  (freeverb.pc # "off" /\ freeverb.out.taken /\ freeverb.frozen) =>
    /\ freeverb.out.fed = 0
    /\ freeverb.out.fed = MulQ(freeverb.out.inp, freeverb.input_gain)

\* C28. set_frozen(true) followed by set_frozen(false) restores frozen,
\* input_gain and the feedback and damping of every comb to what they were
\* before the pair, from every reachable state, the fresh one included.
C28_FrozenRoundTrip ==
  freeverb.pc # "off" =>
    LET after == SetFrozen(SetFrozen(freeverb, TRUE), FALSE)
    IN /\ after.frozen = freeverb.frozen
       /\ after.input_gain = freeverb.input_gain
       /\ \A i \in FvCombs :
            /\ after.rack[i].feedback = freeverb.rack[i].feedback
            /\ after.rack[i].damping = freeverb.rack[i].damping

=============================================================================
